---------------------------- MODULE Spec2Model ----------------------------
(***************************************************************************)
(* A model of the launch-time core of pex: interpreter selection and       *)
(* re-exec (pex_bootstrapper.py), PYTHONPATH stashing, sys scrubbing and   *)
(* distribution activation (pex.py).                                       *)
(*                                                                         *)
(* Strings are sequences of symbols (naturals): str.startswith is the      *)
(* prefix test on sequences, os.pathsep is the symbol Sep, and a variable  *)
(* that is not set (Python's None) is the value None.                      *)
(***************************************************************************)
EXTENDS Integers, Sequences, FiniteSets, TLC

VARIABLES
    environ,      \* os.environ: variable name -> string, or None when unset
    pc,           \* where the launch is
    current,      \* PythonInterpreter.get(): the interpreter running this image
    argv,         \* the command line of the running process image (None before an exec)
    hist,         \* what the launch has done so far (history of calls and returns)
    pexobj,       \* the PEX object of the process: _activated_dists and its inputs
    sel,          \* the arguments and the outcome of an interpreter selection call
    sys,          \* the host runtime: sys.path, sys.path_importer_cache, sys.modules, hooks
    pex_root,     \* the directories under PEX_ROOT/venvs: the venv and its short aliases
    procs         \* the processes running ensure_venv: where each is, its work directories

vars == <<environ, pc, current, argv, hist, pexobj, sel, sys, pex_root, procs>>

\* the state of the venv cache, which only ensure_venv reads and writes
venv_vars == <<pex_root, procs>>

-----------------------------------------------------------------------------
(* Strings *)

\* None: an unset variable, an absent argument
None == <<-1>>
\* os.pathsep as a symbol
Sep == 0
\* the string "1" (the flag value of the guard and of the exec chain)
One == <<9>>
EmptyStr == <<>>
\* None where a list of paths is expected (path=None, PEX_PYTHON_PATH unset)
NoPaths == <<None>>

\* bool(x) of an Optional[str]: None and "" are falsy
Truthy(s) == s # None /\ s # EmptyStr

StartsWith(s, p) == Len(p) <= Len(s) /\ SubSeq(s, 1, Len(p)) = p

\* str.startswith(tuple): any of the prefixes
StartsWithAny(s, prefixes) == \E p \in prefixes : StartsWith(s, p)

RECURSIVE Split(_)
\* s.split(os.pathsep): "" gives [""], "a:b" gives ["a", "b"]
Split(s) ==
    IF \A k \in 1..Len(s) : s[k] # Sep THEN <<s>>
    ELSE LET k == CHOOSE j \in 1..Len(s) : s[j] = Sep /\ \A m \in 1..(j - 1) : s[m] # Sep
         IN  <<SubSeq(s, 1, k - 1)>> \o Split(SubSeq(s, k + 1, Len(s)))

RECURSIVE Join(_)
\* os.pathsep.join(parts)
Join(parts) ==
    IF Len(parts) = 0 THEN EmptyStr
    ELSE IF Len(parts) = 1 THEN parts[1]
    ELSE parts[1] \o <<Sep>> \o Join(Tail(parts))

SeqToSet(s) == {s[k] : k \in 1..Len(s)}

RECURSIVE Dedupe(_)
\* OrderedSet(seq): first occurrences, in order
Dedupe(s) ==
    IF Len(s) = 0 THEN <<>>
    ELSE LET front == Dedupe(SubSeq(s, 1, Len(s) - 1))
             last == s[Len(s)]
         IN  IF last \in SeqToSet(front) THEN front ELSE Append(front, last)

\* OrderedSet(seq) - set: the entries of seq not in the set, order kept
Without(s, set) == SelectSeq(s, LAMBDA x : x \notin set)

-----------------------------------------------------------------------------
(* os.environ *)

\* Variable names are strings too: P, E, X and _ are the symbols 16, 5, 24 and 27, and
\* what follows the prefix of a name is abbreviated to one symbol a word.
\* the prefix "PEX_" that _clean_environment tests names for
PexPrefix == <<16, 5, 24, 27>>

PYTHONPATH == <<16, 25>>
STASHED_PYTHONPATH == <<27>> \o PexPrefix \o <<31>>
BLESSED == <<27>> \o PexPrefix \o <<32>>
EXEC_CHAIN == <<27>> \o PexPrefix \o <<33>>
PEX_PYTHON == PexPrefix \o <<34>>
PEX_PYTHON_PATH == PexPrefix \o <<34, 35>>
PEX_INHERIT_PATH == PexPrefix \o <<36>>
PEX_EXTRA_SYS_PATH == PexPrefix \o <<37>>
PEX == <<16, 5, 24>>
PEX_TOOLS == PexPrefix \o <<38>>
PEX_INTERPRETER == PexPrefix \o <<39>>
\* a variable of the user's application
APP_VAR == <<1, 16, 16>>

EnvVars == {PYTHONPATH, STASHED_PYTHONPATH, BLESSED, EXEC_CHAIN, PEX_PYTHON, PEX_PYTHON_PATH,
            PEX_INHERIT_PATH, PEX_EXTRA_SYS_PATH, PEX, PEX_TOOLS, PEX_INTERPRETER, APP_VAR}

\* the strings "false", "prefer" and "fallback"
FalseStr == <<20>>
PreferStr == <<21>>
FallbackStr == <<22>>

\* Variables.PEX_INHERIT_PATH: an InheritPath value, FALSE unless set to prefer or fallback
EnvInheritPath(env) ==
    IF env[PEX_INHERIT_PATH] = PreferStr THEN "prefer"
    ELSE IF env[PEX_INHERIT_PATH] = FallbackStr THEN "fallback"
    ELSE "false"

\* Variables.PEX_EXTRA_SYS_PATH: the entries of the variable, () when unset or empty
EnvExtraSysPath(env) ==
    IF Truthy(env[PEX_EXTRA_SYS_PATH]) THEN Split(env[PEX_EXTRA_SYS_PATH]) ELSE <<>>

\* Variables.PEX_PYTHON_PATH: the entries of the variable, None when unset or empty
EnvPexPythonPath(env) ==
    IF Truthy(env[PEX_PYTHON_PATH]) THEN Split(env[PEX_PYTHON_PATH]) ELSE NoPaths

\* os.environ.pop(name, None): the environment without the variable
EnvPop(env, name) == [env EXCEPT ![name] = None]

EnvSet(env, name, value) == [env EXCEPT ![name] = value]

\* PEX.stash_pythonpath: the environment it leaves and the value it returns
StashPythonpathTruthy(env) ==
    LET pythonpath == env[PYTHONPATH]
        popped == EnvPop(env, PYTHONPATH)
    IN  [env |-> IF Truthy(pythonpath) THEN EnvSet(popped, STASHED_PYTHONPATH, pythonpath)
                 ELSE popped,
         ret |-> pythonpath]

StashPythonpath(env) ==
    LET pythonpath == env[PYTHONPATH]
        popped == EnvPop(env, PYTHONPATH)
    IN  [env |-> IF pythonpath # None THEN EnvSet(popped, STASHED_PYTHONPATH, pythonpath)
                 ELSE popped,
         ret |-> pythonpath]

\* PEX.unstash_pythonpath
UnstashPythonpath(env) ==
    LET pythonpath == env[STASHED_PYTHONPATH]
        popped == EnvPop(env, STASHED_PYTHONPATH)
    IN  [env |-> IF pythonpath # None THEN EnvSet(popped, PYTHONPATH, pythonpath)
                 ELSE popped,
         ret |-> pythonpath]

-----------------------------------------------------------------------------
(* The machine: the interpreters PythonInterpreter can identify *)

\* how many identifiable interpreters the machine holds
NumInterps == 3
Interps == 1..NumInterps
\* Optional[PythonInterpreter]: no interpreter
NoInterp == 0
\* an InterpreterIdentificationError (the binary at BrokenBinary is not a Python)
IdentErr == -1

\* Path symbols: 1..6 and 10, 11 are root directories (a path that starts with one is
\* absolute), 7, 8, 9 are file and directory names.
\*   <<3>>, <<4>>  the directories holding interpreter binaries
DirOf(i) == 3 + (i % 2)
NameOf(i) == 7 + ((i \div 2) % 2)
\* interpreter.binary
Binary(i) == <<DirOf(i), NameOf(i)>>
\* interpreter.version[:2] and interpreter.version[2]
MinorOf(i) == (i + 1) % 2
PatchOf(i) == i \div 3

BrokenBinary == <<3, 9>>
EmptyDir == <<11>>
\* a symlink to the directory <<3>>
LinkDir == <<10>>
\* a symlink to site-packages inside the standard library directory
SiteLink == <<1, 8>>
SitePackages == <<1, 7>>
\* $PATH
AmbientPath == << <<3>>, <<4>> >>
\* os.getcwd()
Cwd == <<2>>

\* os.path.isabs, os.path.basename, os.path.dirname
IsAbs(p) == Len(p) > 0 /\ p[1] \in (1..6) \cup {10, 11}
Basename(p) == IF Len(p) = 0 THEN p ELSE <<p[Len(p)]>>
Dirname(p) == IF Len(p) = 0 THEN p ELSE SubSeq(p, 1, Len(p) - 1)

\* os.path.abspath and os.path.realpath on this file system
Abspath(p) == IF IsAbs(p) THEN p ELSE Cwd \o p
Realpath(p) ==
    LET a == Abspath(p)
    IN  IF StartsWith(a, LinkDir) THEN <<3>> \o SubSeq(a, Len(LinkDir) + 1, Len(a))
        ELSE IF StartsWith(a, SiteLink) THEN SitePackages \o SubSeq(a, Len(SiteLink) + 1, Len(a))
        ELSE a

\* PythonInterpreter.canonicalize_path: symlinks resolved
CanonicalizePath(p) == Realpath(p)

\* PythonInterpreter.from_binary: the interpreter at a path, IdentErr when there is none
FromBinary(p) ==
    IF \E i \in Interps : Binary(i) = CanonicalizePath(p)
    THEN CHOOSE i \in Interps : Binary(i) = CanonicalizePath(p)
    ELSE IdentErr

\* the binaries one path entry names: the file itself, or the files of the directory
RECURSIVE InterpsFrom(_, _)
InterpsFrom(d, n) ==
    IF n = 0 THEN <<>>
    ELSE InterpsFrom(d, n - 1) \o (IF <<DirOf(n)>> = d THEN <<n>> ELSE <<>>)

EntryBinaries(e) ==
    IF e = BrokenBinary THEN <<IdentErr>>
    ELSE IF \E i \in Interps : Binary(i) = e THEN <<FromBinary(e)>>
    ELSE InterpsFrom(e, NumInterps) \o (IF e = Dirname(BrokenBinary) THEN <<IdentErr>> ELSE <<>>)

\* the path of a candidate, for the path filter
ItemBinary(x) == IF x = IdentErr THEN BrokenBinary ELSE Binary(x)

RECURSIVE CandidatesOn(_)
CandidatesOn(paths) ==
    IF Len(paths) = 0 THEN <<>>
    ELSE EntryBinaries(paths[1]) \o CandidatesOn(Tail(paths))

\* PythonInterpreter.iter_candidates(paths, path_filter): $PATH only when paths is None;
\* validNames = {} is path_filter=None
IterCandidates(paths, validNames) ==
    LET all == CandidatesOn(IF paths = NoPaths THEN AmbientPath ELSE paths)
    IN  Dedupe(SelectSeq(all, LAMBDA x : validNames = {} \/ Basename(ItemBinary(x)) \in validNames))

-----------------------------------------------------------------------------
(* pex_bootstrapper.py: interpreter selection *)

\* normalize_path: a de-duped list of canonical paths, None for None and for ()
NormalizePath(path) ==
    IF path = NoPaths \/ Len(path) = 0 THEN NoPaths
    ELSE Dedupe([k \in 1..Len(path) |-> CanonicalizePath(path[k])])

\* _iter_interpreters with cur_interp yielded first whatever the search path is
IterInterpretersOverCurrentAlways(a, cur_interp, normalized) ==
    Dedupe((IF a.valid_basenames = {} \/ Basename(Binary(cur_interp)) \in a.valid_basenames
            THEN <<cur_interp>> ELSE <<>>)
           \o IterCandidates(normalized, a.valid_basenames))

\* the head of _iter_interpreters: cur_interp is the preferred interpreter, or the
\* running one; it is yielded first unless the path filter or the search path excludes
\* it, and its binary is then dropped from the paths searched
IterInterpretersOver(a, cur_interp, normalized) ==
    LET validPath == a.valid_basenames = {} \/ Basename(Binary(cur_interp)) \in a.valid_basenames
        inPath == normalized # NoPaths
                  /\ {Binary(cur_interp), Dirname(Binary(cur_interp))} \cap SeqToSet(normalized) # {}
    IN  Dedupe((IF validPath /\ (normalized = NoPaths \/ inPath) THEN <<cur_interp>> ELSE <<>>)
               \o IterCandidates(IF validPath /\ inPath
                                 THEN SelectSeq(normalized, LAMBDA p : p # Binary(cur_interp))
                                 ELSE normalized,
                                 a.valid_basenames))

\* iter_compatible_interpreters._iter_interpreters: the candidates in the order yielded.
\* a = [path, valid_basenames, constraints, preferred, test]; cur = PythonInterpreter.get();
\* valid_basenames = {} is valid_basenames=None (or empty), path = NoPaths is path=None
IterInterpreters(a, cur) ==
    IterInterpretersOver(a, IF a.preferred # NoInterp THEN a.preferred ELSE cur,
                         NormalizePath(a.path))

\* InterpreterTest.test_resolve: "ok" for True, "resolve_error" for a ResolveError
TestResolve(a, i) == IF a.test.given /\ i \in a.test.fails THEN "resolve_error" ELSE "ok"

\* iter_compatible_interpreters._valid_interpreter: "ok", "resolve_error" or "no"
ValidInterpreter(a, i) ==
    IF ~a.constraints.given THEN TestResolve(a, i)
    ELSE IF i \in a.constraints.match THEN TestResolve(a, i)
    ELSE "no"

NoError == [raised |-> FALSE, constraints |-> <<>>, candidates |-> <<>>, failures |-> <<>>,
            preamble |-> "none"]

Constraint(kind, interp) == [kind |-> kind, interp |-> interp]

\* the constraints the error of iter_compatible_interpreters names
IterConstraints(a, errored) ==
    IF Len(errored) > 0 THEN [k \in 1..Len(errored) |-> Constraint("resolve", errored[k])]
    ELSE (IF a.constraints.given THEN <<Constraint("version", NoInterp)>> ELSE <<>>)
         \o (IF a.valid_basenames # {} THEN <<Constraint("basename", NoInterp)>> ELSE <<>>)

\* the end of iter_compatible_interpreters with the error raised whenever nothing was
\* found
IterOutcomeAlwaysRaises(a, candidates, failures, yielded, errored) ==
    [yielded |-> yielded,
     error |-> IF Len(yielded) = 0
               THEN [raised |-> TRUE, constraints |-> IterConstraints(a, errored),
                     candidates |-> candidates, failures |-> failures, preamble |-> "none"]
               ELSE NoError]

\* the end of iter_compatible_interpreters: the error is raised when nothing was found
\* and resolve errors, interpreter constraints or basenames are in play
IterOutcome(a, candidates, failures, yielded, errored) ==
    [yielded |-> yielded,
     error |-> IF Len(yielded) = 0
                  /\ (Len(errored) > 0 \/ a.constraints.given \/ a.valid_basenames # {})
               THEN [raised |-> TRUE, constraints |-> IterConstraints(a, errored),
                     candidates |-> candidates, failures |-> failures, preamble |-> "none"]
               ELSE NoError]

\* the candidates up to and including the first one the test fails to resolve
RECURSIVE UpToFirstResolveError(_, _)
UpToFirstResolveError(a, candidates) ==
    IF Len(candidates) = 0 THEN <<>>
    ELSE IF ValidInterpreter(a, candidates[1]) = "resolve_error" THEN <<candidates[1]>>
    ELSE <<candidates[1]>> \o UpToFirstResolveError(a, Tail(candidates))

\* the loop of iter_compatible_interpreters ending at the first ResolveError
IterCompatibleOverAbortsOnResolveError(a, candidates, failures) ==
    IterOutcome(a, UpToFirstResolveError(a, candidates), failures,
                SelectSeq(UpToFirstResolveError(a, candidates),
                          LAMBDA i : ValidInterpreter(a, i) = "ok"),
                SelectSeq(UpToFirstResolveError(a, candidates),
                          LAMBDA i : ValidInterpreter(a, i) = "resolve_error"))

\* the loop of iter_compatible_interpreters over the enumerated items
IterCompatibleOver(a, candidates, failures) ==
    IterOutcome(a, candidates, failures,
                SelectSeq(candidates, LAMBDA i : ValidInterpreter(a, i) = "ok"),
                SelectSeq(candidates, LAMBDA i : ValidInterpreter(a, i) = "resolve_error"))

IterCompatibleOfItems(a, items) ==
    IterCompatibleOver(a, SelectSeq(items, LAMBDA x : x # IdentErr),
                       SelectSeq(items, LAMBDA x : x = IdentErr))

\* iter_compatible_interpreters, run to the end of the enumeration: what it yielded,
\* and the UnsatisfiableInterpreterConstraintsError it raised, if any
IterCompatibleInterpreters(a, cur) == IterCompatibleOfItems(a, IterInterpreters(a, cur))

\* PythonInterpreter.latest_release_of_min_compatible_version: the smallest
\* major.minor and, within it, the largest patch; the first such in the order given
LatestReleaseOfMinCompatibleVersion(cands) ==
    LET Better(i, j) == MinorOf(i) < MinorOf(j) \/ (MinorOf(i) = MinorOf(j) /\ PatchOf(i) > PatchOf(j))
        best == CHOOSE k \in 1..Len(cands) :
                    /\ \A m \in 1..Len(cands) : ~Better(cands[m], cands[k])
                    /\ \A m \in 1..(k - 1) : Better(cands[k], cands[m])
    IN  cands[best]

\* the loop of _select_path_interpreter with the preferred interpreter never looked for
SelectFromNoPreferred(a, cur, it) ==
    IF it.error.raised THEN [target |-> NoInterp, error |-> it.error]
    ELSE IF Len(it.yielded) = 0 THEN [target |-> NoInterp, error |-> NoError]
    ELSE IF cur \in SeqToSet(it.yielded) THEN [target |-> cur, error |-> NoError]
    ELSE [target |-> LatestReleaseOfMinCompatibleVersion(it.yielded), error |-> NoError]

\* the loop of _select_path_interpreter over it, the run of iter_compatible_interpreters:
\* the preferred interpreter as soon as it is yielded, else the running one, else the
\* latest release of the minimum compatible version
SelectFrom(a, cur, it) ==
    IF (IF a.preferred # NoInterp THEN a.preferred ELSE cur) \in SeqToSet(it.yielded)
    THEN [target |-> IF a.preferred # NoInterp THEN a.preferred ELSE cur, error |-> NoError]
    ELSE IF it.error.raised THEN [target |-> NoInterp, error |-> it.error]
    ELSE IF Len(it.yielded) = 0 THEN [target |-> NoInterp, error |-> NoError]
    ELSE IF cur \in SeqToSet(it.yielded) THEN [target |-> cur, error |-> NoError]
    ELSE [target |-> LatestReleaseOfMinCompatibleVersion(it.yielded), error |-> NoError]

\* _select_path_interpreter: the interpreter returned (NoInterp for None) and the
\* error that escaped it, if any
SelectPathInterpreter(a, cur) == SelectFrom(a, cur, IterCompatibleInterpreters(a, cur))

\* e.with_preamble(...)
WithPreamble(error, preamble) == [error EXCEPT !.preamble = preamble]

\* find_compatible_interpreter.gather_constraints
GatherConstraints(pex_python, pex_python_path, t) ==
    (IF Truthy(pex_python) THEN <<Constraint("PEX_PYTHON", NoInterp)>> ELSE <<>>)
    \o (IF pex_python_path # NoPaths /\ Len(pex_python_path) > 0
        THEN <<Constraint("PEX_PYTHON_PATH", NoInterp)>> ELSE <<>>)
    \o (IF t.given /\ t.constraints.given THEN <<Constraint("version", NoInterp)>> ELSE <<>>)

\* the interpreter PEX_PYTHON pins when it is an absolute path: IdentErr when the path
\* cannot be identified, NoInterp when nothing is pinned
PinnedInterpreter(pex_python) ==
    IF Truthy(pex_python) /\ IsAbs(pex_python) THEN FromBinary(pex_python) ELSE NoInterp

\* the arguments find_compatible_interpreter gives _select_path_interpreter
FindArgs(pex_python, pex_python_path, t) ==
    LET byPython == Truthy(pex_python) /\ ~(pex_python_path # NoPaths /\ Len(pex_python_path) > 0)
    IN  [path |-> IF byPython
                  THEN (IF IsAbs(pex_python) THEN <<pex_python>> ELSE NoPaths)
                  ELSE pex_python_path,
         valid_basenames |-> IF byPython /\ ~IsAbs(pex_python) THEN {Basename(pex_python)} ELSE {},
         constraints |-> IF t.given THEN t.constraints ELSE [given |-> FALSE, match |-> {}],
         preferred |-> IF byPython /\ ~IsAbs(pex_python) THEN NoInterp
                       ELSE PinnedInterpreter(pex_python),
         test |-> [given |-> t.given, fails |-> t.fails]]

\* the end of find_compatible_interpreter with None returned as it is
FindOutcomeReturnsNone(gathered, cur, preferred, byPython, selected) ==
    IF preferred = IdentErr
    THEN [target |-> NoInterp,
          error |-> [raised |-> TRUE, constraints |-> gathered, candidates |-> <<>>,
                     failures |-> <<IdentErr>>, preamble |-> "not identified"]]
    ELSE IF selected.error.raised
    THEN [target |-> NoInterp,
          error |-> WithPreamble(selected.error,
                                 IF byPython THEN "no compatible PEX_PYTHON" ELSE "none on path")]
    ELSE IF preferred # NoInterp /\ selected.target # preferred
    THEN [target |-> NoInterp,
          error |-> [raised |-> TRUE, constraints |-> gathered,
                     candidates |-> IF selected.target # NoInterp
                                    THEN <<preferred, selected.target>> ELSE <<preferred>>,
                     failures |-> <<>>, preamble |-> "PEX_PYTHON did not meet constraints"]]
    ELSE [target |-> selected.target, error |-> NoError]

\* the end of find_compatible_interpreter, selected being what _select_path_interpreter
\* returned or raised
FindOutcome(gathered, cur, preferred, byPython, selected) ==
    IF preferred = IdentErr
    THEN [target |-> NoInterp,
          error |-> [raised |-> TRUE, constraints |-> gathered, candidates |-> <<>>,
                     failures |-> <<IdentErr>>, preamble |-> "not identified"]]
    ELSE IF selected.error.raised
    THEN [target |-> NoInterp,
          error |-> WithPreamble(selected.error,
                                 IF byPython THEN "no compatible PEX_PYTHON" ELSE "none on path")]
    ELSE IF preferred # NoInterp /\ selected.target # preferred
    THEN [target |-> NoInterp,
          error |-> [raised |-> TRUE, constraints |-> gathered,
                     candidates |-> IF selected.target # NoInterp
                                    THEN <<preferred, selected.target>> ELSE <<preferred>>,
                     failures |-> <<>>, preamble |-> "PEX_PYTHON did not meet constraints"]]
    ELSE IF selected.target = NoInterp
    THEN [target |-> NoInterp,
          error |-> [raised |-> TRUE, constraints |-> gathered, candidates |-> <<cur>>,
                     failures |-> <<>>, preamble |-> "could not find"]]
    ELSE [target |-> selected.target, error |-> NoError]

\* find_compatible_interpreter(interpreter_test): pex_python is ENV.PEX_PYTHON,
\* pex_python_path is ENV.PEX_PYTHON_PATH, t = [given, fails, constraints] is the
\* interpreter test (t.given = FALSE when it is None). The interpreter returned and the
\* UnsatisfiableInterpreterConstraintsError raised, if any
FindCompatibleInterpreter(pex_python, pex_python_path, t, cur) ==
    FindOutcome(GatherConstraints(pex_python, pex_python_path, t), cur,
                PinnedInterpreter(pex_python),
                Truthy(pex_python) /\ ~(pex_python_path # NoPaths /\ Len(pex_python_path) > 0),
                SelectPathInterpreter(FindArgs(pex_python, pex_python_path, t), cur))

-----------------------------------------------------------------------------
(* pex.py: the path classifier *)

\* a __path__ that is present but is not a list
NotAList == << <<-2>> >>

\*   <<1>>     the standard library directory, <<1, 7>> its site-packages
\*   <<2>>     the PEX file, <<2, 7>> its bootstrap directory
\*   <<5>>     a user directory, <<5, 8>> the user site
\*   <<6>>     an extras directory
PexFile == <<2>>
\* Bootstrap.locate().path
BootstrapPath == <<2, 7>>

RECURSIVE ExpandPaths(_)
\* IsolatedSysPath._expand_paths: each path, its absolute form if relative, its realpath
ExpandPaths(paths) ==
    IF Len(paths) = 0 THEN <<>>
    ELSE LET path == Head(paths)
         IN  <<path>> \o (IF ~IsAbs(path) THEN <<Abspath(path)>> ELSE <<>>) \o <<Realpath(path)>>
             \o ExpandPaths(Tail(paths))

\* IsolatedSysPath.__init__
IsolatedSysPath(sys_path, site_packages, extras_paths, is_venv) ==
    [sys_path_entries |-> SeqToSet(ExpandPaths(sys_path)),
     site_packages_entries |-> SeqToSet(ExpandPaths(site_packages)),
     extras_paths_entries |-> SeqToSet(ExpandPaths(extras_paths)),
     is_venv |-> is_venv]

\* IsolatedSysPath.for_pex; host holds the interpreter's sys_path, site_packages,
\* extras_paths and is_venv
ForPex(host, pex, pex_pex) ==
    IsolatedSysPath(
        Dedupe(host.sys_path \o <<pex, BootstrapPath>> \o (IF Truthy(pex_pex) THEN <<pex_pex>> ELSE <<>>)),
        Dedupe(host.site_packages), Dedupe(host.extras_paths), host.is_venv)

RECURSIVE ContainsExpanded(_, _)
ContainsExpanded(iso, expanded) ==
    IF Len(expanded) = 0 THEN FALSE
    ELSE LET path == Head(expanded)
         IN  IF StartsWithAny(path, iso.site_packages_entries) THEN FALSE
             ELSE IF StartsWithAny(path, iso.extras_paths_entries) THEN FALSE
             ELSE IF StartsWithAny(path, iso.sys_path_entries) THEN TRUE
             ELSE ContainsExpanded(iso, Tail(expanded))

\* IsolatedSysPath.__contains__
Contains(iso, entry) == ContainsExpanded(iso, ExpandPaths(<<entry>>))

-----------------------------------------------------------------------------
(* pex.py: the scrubber *)

\* a module's __path__ with the entries the classifier rejects popped
ScrubbedModulePath(iso, module_path) == SelectSeq(module_path, LAMBDA e : Contains(iso, e))

\* the test of minimum_sys_modules with the virtualenv exception given to every module
TaintedModuleAnyInVenv(iso, name, module) ==
    /\ ~iso.is_venv
    /\ Truthy(module.file)
    /\ ~Contains(iso, module.file)

\* minimum_sys_modules: a module is dropped for its __file__ unless it is _virtualenv
\* in a virtual environment
TaintedModule(iso, name, module) ==
    /\ ~iso.is_venv \/ name # "_virtualenv"
    /\ Truthy(module.file)
    /\ ~Contains(iso, module.file)

\* minimum_sys_modules with a package kept when its __path__ was emptied
MinimumSysModulesKeepsEmptied(iso, modules) ==
    LET kept == {name \in DOMAIN modules :
                    /\ ~TaintedModule(iso, name, modules[name])
                    /\ modules[name].path # NotAList}
    IN  [name \in kept |->
            IF modules[name].path = NoPaths THEN modules[name]
            ELSE [modules[name] EXCEPT !.path = ScrubbedModulePath(iso, modules[name].path)]]

\* minimum_sys_modules with a module whose __path__ is not a list kept as it is
MinimumSysModulesKeepsNonLists(iso, modules) ==
    LET kept == {name \in DOMAIN modules :
                    /\ ~TaintedModule(iso, name, modules[name])
                    /\ \/ modules[name].path \in {NoPaths, NotAList}
                       \/ Len(ScrubbedModulePath(iso, modules[name].path)) > 0}
    IN  [name \in kept |->
            IF modules[name].path \in {NoPaths, NotAList} THEN modules[name]
            ELSE [modules[name] EXCEPT !.path = ScrubbedModulePath(iso, modules[name].path)]]

\* PEX.minimum_sys_modules: modules maps a name to [file, path], path being NoPaths
\* for a module without __path__, NotAList, or the list
MinimumSysModules(iso, modules) ==
    LET kept == {name \in DOMAIN modules :
                    /\ ~TaintedModule(iso, name, modules[name])
                    /\ \/ modules[name].path = NoPaths
                       \/ /\ modules[name].path # NotAList
                          /\ Len(ScrubbedModulePath(iso, modules[name].path)) > 0}
    IN  [name \in kept |->
            IF modules[name].path = NoPaths THEN modules[name]
            ELSE [modules[name] EXCEPT !.path = ScrubbedModulePath(iso, modules[name].path)]]

\* find_distributions(path): the locations of the distributions found at a path
DistLocations(path) ==
    IF path = SitePackages THEN {SitePackages}
    ELSE IF path = <<6>> THEN {<<6>>, <<6, 7>>}
    ELSE IF path = <<5, 8>> THEN {<<5, 8>>}
    ELSE {}

\* minimum_sys_path.all_distribution_paths
AllDistributionPaths(path) ==
    IF path = None THEN {}
    ELSE {path} \cup DistLocations(path) \cup {Realpath(l) : l \in DistLocations(path)}

\* the keys dropped from the importer cache taken to be those that are a prefix of a
\* scrubbed path
ScrubFromImporterCachePrefixOf(keys, scrub_paths, py3) ==
    {keys[k] : k \in {j \in 1..Len(keys) : \E path \in scrub_paths : StartsWith(path, keys[j])}}

\* the keys minimum_sys_path drops from the importer cache. On Python 3 filter() is a
\* one-pass iterator and each "key not in" test consumes it up to the key looked for:
\* once a key that is not to be scrubbed is tested the iterator is exhausted and every
\* later key is kept. On Python 2 filter() is a list.
ScrubFromImporterCache(keys, scrub_paths, py3) ==
    IF py3
    THEN {keys[k] : k \in {j \in 1..Len(keys) : \A m \in 1..j : StartsWithAny(keys[m], scrub_paths)}}
    ELSE {keys[k] : k \in {j \in 1..Len(keys) : StartsWithAny(keys[j], scrub_paths)}}

\* the paths minimum_sys_path would scrub if it scrubbed under every inherit-path policy
ScrubPathsAlways(s, iso, inherit_path) ==
    UNION {AllDistributionPaths(s.path[k]) : k \in {j \in 1..Len(s.path) : ~Contains(iso, s.path[j])}}
    \cup AllDistributionPaths(s.user_site)

\* the paths minimum_sys_path scrubs: under InheritPath.FALSE, every tainted sys.path
\* entry, the user site, and the locations of the distributions found there
ScrubPaths(s, iso, inherit_path) ==
    IF inherit_path = "false"
    THEN UNION {AllDistributionPaths(s.path[k]) :
                    k \in {j \in 1..Len(s.path) : ~Contains(iso, s.path[j])}}
         \cup AllDistributionPaths(s.user_site)
    ELSE {}

\* the user's PYTHONPATH entries that are not on sys.path
UserPythonpath(s, pythonpath) ==
    IF pythonpath = None THEN <<>>
    ELSE Without(Dedupe(Split(pythonpath)), SeqToSet(s.path))

\* the end of minimum_sys_path with the user's PYTHONPATH appended under PREFER too
MinimumSysPathOverUserLast(inherit_path, s, scrub_paths, unstashed) ==
    [path |-> IF unstashed.ret # None /\ inherit_path \in {"prefer", "fallback"}
              THEN Without(Dedupe(s.path), scrub_paths) \o UserPythonpath(s, unstashed.ret)
              ELSE Without(Dedupe(s.path), scrub_paths),
     path_importer_cache |->
         Without(s.path_importer_cache,
                 ScrubFromImporterCache(s.path_importer_cache, scrub_paths, s.py3)),
     env |-> unstashed.env]

\* the end of minimum_sys_path: scrub_paths are removed from sys.path and from the
\* importer cache, the unstashed PYTHONPATH is prepended or appended by policy
MinimumSysPathOver(inherit_path, s, scrub_paths, unstashed) ==
    [path |-> IF unstashed.ret # None /\ inherit_path = "prefer"
              THEN UserPythonpath(s, unstashed.ret) \o Without(Dedupe(s.path), scrub_paths)
              ELSE IF unstashed.ret # None /\ inherit_path = "fallback"
              THEN Without(Dedupe(s.path), scrub_paths) \o UserPythonpath(s, unstashed.ret)
              ELSE Without(Dedupe(s.path), scrub_paths),
     path_importer_cache |->
         Without(s.path_importer_cache,
                 ScrubFromImporterCache(s.path_importer_cache, scrub_paths, s.py3)),
     env |-> unstashed.env]

\* PEX.minimum_sys_path: the scrubbed sys.path and importer cache, and the environment
\* unstash_pythonpath leaves
MinimumSysPath(iso, inherit_path, s, env) ==
    MinimumSysPathOver(inherit_path, s, ScrubPaths(s, iso, inherit_path), UnstashPythonpath(env))

\* the inherit-path policy of patch_sys taken from PEX_INHERIT_PATH alone
EffectiveInheritPathOfEnv(p, env) == EnvInheritPath(env)

\* the inherit-path policy patch_sys uses: PEX_INHERIT_PATH unless it is FALSE, and
\* then the policy of PEX-INFO
EffectiveInheritPath(p, env) ==
    IF EnvInheritPath(env) = "false" THEN p.inherit_path ELSE EnvInheritPath(env)

\* the PYTHONPATH patch_sys exports when PEX_EXTRA_SYS_PATH is set
ExportedPythonpath(inherit_path, raw_pythonpath, extra_sys_path) ==
    IF inherit_path = "false" THEN Join(extra_sys_path)
    ELSE Join((IF Truthy(raw_pythonpath) THEN Split(raw_pythonpath) ELSE <<>>) \o extra_sys_path)

\* the end of patch_sys (patch_all), min being what minimum_sys_path returned and
\* modules what minimum_sys_modules returned
PatchAll(s, inherit_path, min, modules, extra_sys_path) ==
    [sys |-> [s EXCEPT !.path = min.path \o extra_sys_path,
                       !.path_importer_cache = min.path_importer_cache,
                       !.modules = modules,
                       !.hooks = "default",
                       !.patches = s.patches + 1],
     env |-> IF Len(extra_sys_path) > 0
             THEN EnvSet(min.env, PYTHONPATH,
                         ExportedPythonpath(inherit_path, min.env[PYTHONPATH], extra_sys_path))
             ELSE min.env]

\* minimum_sys under the policy patch_sys settled on, then patch_all
PatchSysWith(s, env, inherit_path, iso) ==
    PatchAll(s, inherit_path, MinimumSysPath(iso, inherit_path, s, env),
             MinimumSysModules(iso, s.modules), EnvExtraSysPath(env))

\* PEX.patch_sys: the runtime and the environment it leaves. p is the PEX object,
\* s the runtime (sys), env os.environ
PatchSys(p, s, env) ==
    PatchSysWith(s, env, EffectiveInheritPath(p, env), ForPex(s.host, p.pex, env[PEX]))

-----------------------------------------------------------------------------
(* pex.py: the PEX object and activation *)

\* how many distributions the mounted archives hold between them
NumDists == 2
Dists == 1..NumDists
\* how many archives are mounted: the PEX itself and those of its pex_path
MaxMounts == 2
\* dist.location
DistLocation(d) == <<2, 8, d>>

\* _activated_dists = None
NoList == [id |-> 0, dists |-> <<>>]

RECURSIVE Flatten(_)
Flatten(lists) == IF Len(lists) = 0 THEN <<>> ELSE Head(lists) \o Flatten(Tail(lists))

\* PEXEnvironment.activate of every mount: each distribution's location is appended to
\* sys.path unless it is there
RegisterDists(s, dists) ==
    [s EXCEPT !.path = s.path \o Without(Dedupe([k \in 1..Len(dists) |-> DistLocation(dists[k])]),
                                         SeqToSet(s.path))]

\* PEX._activate: the distributions of every mount, in mount order, as a new list
ActivateDists(p) == Flatten(p.mounts)

\* PEX.resolve: the distributions of every mount, in mount order, one already seen
\* being skipped
PexResolve(p) == Dedupe(Flatten(p.mounts))

\* activate() past the None test: patched is what patch_sys left, the list _activate
\* returns is recorded in _activated_dists
Activated(p, patched) ==
    [pex |-> [p EXCEPT !.activated = [id |-> p.next_id, dists |-> ActivateDists(p)],
                       !.next_id = p.next_id + 1],
     sys |-> RegisterDists(patched.sys, ActivateDists(p)),
     env |-> patched.env,
     ret |-> [id |-> p.next_id, dists |-> ActivateDists(p)]]

\* activate() with the list recorded although _activate raised
ActivateRaisedRecorded(p, patched, k) ==
    [pex |-> [p EXCEPT !.activated = [id |-> p.next_id,
                                      dists |-> Flatten(SubSeq(p.mounts, 1, k - 1))],
                       !.next_id = p.next_id + 1],
     sys |-> RegisterDists(patched.sys, Flatten(SubSeq(p.mounts, 1, k - 1))),
     env |-> patched.env,
     ret |-> p.activated]

\* activate() past the None test when _activate raises: patched is what patch_sys
\* left, the mounts before mount k were activated, and the exception leaves activate()
\* before _activated_dists is assigned (k past the last mount: the declaration of the
\* namespace packages raised)
ActivateRaised(p, patched, k) ==
    [pex |-> p,
     sys |-> RegisterDists(patched.sys, Flatten(SubSeq(p.mounts, 1, k - 1))),
     env |-> patched.env,
     ret |-> p.activated]

\* PEX.activate with the cached list never consulted
PexActivateUncached(p, s, env) == Activated(p, PatchSys(p, s, env))

\* PEX.activate with the cached list tested for truth instead of for None
PexActivateTruthy(p, s, env) ==
    IF Len(p.activated.dists) = 0
    THEN Activated(p, PatchSys(p, s, env))
    ELSE [pex |-> p, sys |-> s, env |-> env, ret |-> p.activated]

\* PEX.activate: the PEX object, the runtime and the environment it leaves, and the
\* list it returns
PexActivate(p, s, env) ==
    IF p.activated = NoList
    THEN Activated(p, PatchSys(p, s, env))
    ELSE [pex |-> p, sys |-> s, env |-> env, ret |-> p.activated]

\* PEX._clean_environment with the test "PEX_" in key
CleanEnvironmentAnywhere(env, strip_pex_env) ==
    IF strip_pex_env
    THEN [key \in DOMAIN env |->
             IF \E k \in 0..Len(key) : StartsWith(SubSeq(key, k + 1, Len(key)), PexPrefix)
             THEN None ELSE env[key]]
    ELSE env

\* PEX._clean_environment: every key that starts with "PEX_" is deleted
CleanEnvironment(env, strip_pex_env) ==
    IF strip_pex_env
    THEN [key \in DOMAIN env |-> IF StartsWith(key, PexPrefix) THEN None ELSE env[key]]
    ELSE env

-----------------------------------------------------------------------------
(* Values the specifications share *)

NoEnv == [v \in EnvVars |-> None]

\* the interpreter the PEX is launched with: its sys_path, site_packages, extras_paths
StdHost == [sys_path |-> << <<1>>, SitePackages >>, site_packages |-> <<SitePackages>>,
            extras_paths |-> << <<6>> >>, is_venv |-> FALSE]

\* a runtime as the interpreter starts it: the standard library, site-packages and an
\* extras path on sys.path, a module loaded from site-packages
StdSys == [path |-> << PexFile, <<1>>, SitePackages, <<6>> >>,
           path_importer_cache |-> << SitePackages, PexFile >>,
           modules |-> [name \in {"os", "site_mod"} |->
                           IF name = "os" THEN [file |-> <<1, 9>>, path |-> NoPaths]
                           ELSE [file |-> <<1, 7, 9>>, path |-> NoPaths]],
           hooks |-> "custom", patches |-> 0, py3 |-> TRUE,
           host |-> StdHost, user_site |-> <<5, 8>>]

\* a PEX object as PEX.__init__ leaves it
NewPex(inherit_path, mounts) ==
    [pex |-> PexFile, inherit_path |-> inherit_path, mounts |-> mounts,
     activated |-> NoList, next_id |-> 1]

IdlePex == NewPex("false", <<>>)
IdleSel == [fn |-> "none"]
IdleHist == [kind |-> "none"]
\* no venv cache and no process in ensure_venv
NoPexRoot == [venv |-> "none"]
NoProcs == <<>>

\* target.resolve_base_interpreter(): interpreter 3 is a virtual environment made from
\* interpreter 1
ResolveBaseInterpreter(i) == IF i = 3 THEN 1 ELSE i

-----------------------------------------------------------------------------
(* Spec: a launch, bootstrap_pex with execute=True and no venv mode *)

\* sys.argv of the launch
LaunchArgv == <<PexFile, <<7>>>>

LaunchEnvs ==
    {[NoEnv EXCEPT ![PYTHONPATH] = pp, ![STASHED_PYTHONPATH] = st, ![BLESSED] = g,
                   ![EXEC_CHAIN] = ch, ![PEX_PYTHON] = py, ![PEX_PYTHON_PATH] = ppp] :
        pp \in {None, EmptyStr, <<5>>},
        st \in {None, <<6>>},
        g \in {None, One},
        ch \in {None, One, Binary(3)},
        py \in {None, BrokenBinary, <<7>>, <<9>>} \cup {Binary(i) : i \in Interps},
        ppp \in {None, <<3>>, <<11>>, <<4, Sep, 3>>, Binary(1)}}

\* the interpreter tests a launch is run with: which interpreters fail to resolve
\* the PEX, and the interpreter constraints of PEX-INFO
LaunchTests ==
    {[given |-> TRUE, fails |-> f, constraints |-> c] :
        f \in {{}, {1}, Interps},
        c \in {[given |-> FALSE, match |-> {}], [given |-> TRUE, match |-> {}],
               [given |-> TRUE, match |-> {2}], [given |-> TRUE, match |-> {1, 3}]}}

LaunchInit ==
    /\ environ \in LaunchEnvs
    /\ pc = "bootstrap"
    /\ current \in Interps
    /\ argv = LaunchArgv
    /\ \E ip \in {"false", "prefer", "fallback"} :
           pexobj = NewPex(ip, << <<1>>, <<1, 2>> >>)
    /\ sel = IdleSel
    /\ sys = StdSys
    /\ hist = [kind |-> "launch", env0 |-> environ, execs |-> <<>>, selections |-> 0,
               entries |-> 0, last |-> "none", activations |-> <<>>, dispatched |-> "none"]
    /\ pex_root = NoPexRoot
    /\ procs = NoProcs

\* the exec chain bookkeeping with the flag value "1" taken for a chain of one element
ExecChainKeepsFlag(env, cur) ==
    IF env[EXEC_CHAIN] # None
    THEN EnvSet(env, EXEC_CHAIN, Join(Append(Split(env[EXEC_CHAIN]), Binary(cur))))
    ELSE env

\* the exec chain bookkeeping at the top of maybe_reexec_pex
ExecChain(env, cur) ==
    IF env[EXEC_CHAIN] # None
    THEN LET flag_or_chain == env[EXEC_CHAIN]
             pex_exec_chain == IF flag_or_chain = One THEN <<>> ELSE Split(flag_or_chain)
         IN  EnvSet(env, EXEC_CHAIN, Join(Append(pex_exec_chain, Binary(cur))))
    ELSE env

\* the interpreter maybe_reexec_pex goes on with: resolved out of its virtual
\* environment when the PEX does not inherit the path
ReexecTarget(p, found) ==
    IF p.inherit_path = "false" THEN ResolveBaseInterpreter(found.target) ELSE found.target

\* the end of maybe_reexec_pex with the guard variable never set
ReexecOutcomeNoGuard(stash, target, cur, args) ==
    IF stash.ret = None /\ target = cur
    THEN [outcome |-> "inplace", env |-> stash.env, target |-> target, cmdline |-> <<>>]
    ELSE [outcome |-> "exec", env |-> stash.env,
          target |-> target, cmdline |-> <<Binary(target)>> \o args]

\* the end of maybe_reexec_pex with the process continuing in place whenever the
\* target is the running interpreter
ReexecOutcomeIgnoresPythonpath(stash, target, cur, args) ==
    IF target = cur
    THEN [outcome |-> "inplace", env |-> stash.env, target |-> target, cmdline |-> <<>>]
    ELSE [outcome |-> "exec", env |-> EnvSet(stash.env, BLESSED, One),
          target |-> target, cmdline |-> <<Binary(target)>> \o args]

\* the end of maybe_reexec_pex, stash being what stash_pythonpath returned and left:
\* continue in place, or set the guard and exec the target with sys.argv
ReexecOutcome(stash, target, cur, args) ==
    IF stash.ret = None /\ target = cur
    THEN [outcome |-> "inplace", env |-> stash.env, target |-> target, cmdline |-> <<>>]
    ELSE [outcome |-> "exec", env |-> EnvSet(stash.env, BLESSED, One),
          target |-> target, cmdline |-> <<Binary(target)>> \o args]

\* what maybe_reexec_pex does once an interpreter was found, PEX_PYTHON and
\* PEX_PYTHON_PATH staying in the environment
ReexecDecisionKeepsPexPython(env, p, found, cur, args) ==
    ReexecOutcome(StashPythonpath(env), ReexecTarget(p, found), cur, args)

\* what maybe_reexec_pex does once an interpreter was found
ReexecDecision(env, p, found, cur, args) ==
    ReexecOutcome(StashPythonpath(EnvPop(EnvPop(env, PEX_PYTHON), PEX_PYTHON_PATH)),
                  ReexecTarget(p, found), cur, args)

Entered(last, selected) ==
    [hist EXCEPT !.entries = hist.entries + 1, !.last = last,
                 !.selections = hist.selections + selected]

\* maybe_reexec_pex returns None or os.execv replaces the process image
ReexecOrReturn(t, env, found, decision) ==
    /\ environ' = decision.env
    /\ sel' = [fn |-> "find", t |-> t, cur |-> current, env |-> env, found |-> found,
               target |-> decision.target]
    /\ IF decision.outcome = "inplace"
       THEN /\ pc' = "execute"
            /\ hist' = Entered("inplace", 1)
            /\ UNCHANGED current
       ELSE /\ pc' = "bootstrap"
            /\ current' = decision.target
            /\ hist' = [Entered("exec", 1) EXCEPT
                           !.execs = Append(hist.execs,
                                            [target |-> decision.target,
                                             cmdline |-> decision.cmdline,
                                             from |-> current,
                                             env |-> decision.env])]

\* maybe_reexec_pex past the guard: die(str(e)) when no interpreter is found
ReexecSelected(t, env, found) ==
    IF found.error.raised
    THEN /\ environ' = env
         /\ pc' = "died"
         /\ hist' = Entered("died", 1)
         /\ sel' = [fn |-> "find", t |-> t, cur |-> current, env |-> env, found |-> found,
                    target |-> NoInterp]
         /\ UNCHANGED current
    ELSE ReexecOrReturn(t, env, found, ReexecDecision(env, pexobj, found, current, argv))

\* maybe_reexec_pex after the exec chain bookkeeping: the guard is popped, and seeing
\* it set ends the function
ReexecGuarded(t, chained) ==
    IF Truthy(chained[BLESSED])
    THEN /\ environ' = EnvPop(chained, BLESSED)
         /\ pc' = "execute"
         /\ hist' = Entered("guard", 0)
         /\ UNCHANGED <<current, sel>>
    ELSE ReexecSelected(t, EnvPop(chained, BLESSED),
                        FindCompatibleInterpreter(chained[PEX_PYTHON], EnvPexPythonPath(chained),
                                                  t, current))

\* maybe_reexec_pex(interpreter_test), called by bootstrap_pex
MaybeReexecPex ==
    /\ pc = "bootstrap"
    /\ \E t \in LaunchTests : ReexecGuarded(t, ExecChain(environ, current))
    /\ UNCHANGED <<argv, pexobj, sys>>
    /\ UNCHANGED venv_vars

Activation(act, dispatched) ==
    /\ pexobj' = act.pex
    /\ sys' = act.sys
    /\ environ' = act.env
    /\ hist' = [hist EXCEPT !.activations = Append(hist.activations, act.ret.id),
                            !.dispatched = dispatched]

\* PEX(entry_point).execute() up to _execute: the PEX is activated
Execute ==
    /\ pc = "execute"
    /\ Activation(PexActivate(pexobj, sys, environ), "none")
    /\ pc' = "dispatch"
    /\ UNCHANGED <<current, argv, sel>>
    /\ UNCHANGED venv_vars

\* PEX._execute: the environment is cleaned and the entry dispatched; a script entry
\* goes through execute_script, which activates the PEX again
ExecuteEntry ==
    /\ pc = "dispatch"
    /\ \E strip_pex_env \in BOOLEAN, shape \in {"interpreter", "script", "entry_point"} :
        IF shape = "script"
        THEN Activation(PexActivate(pexobj, sys, CleanEnvironment(environ, strip_pex_env)), shape)
        ELSE /\ environ' = CleanEnvironment(environ, strip_pex_env)
             /\ hist' = [hist EXCEPT !.dispatched = shape]
             /\ UNCHANGED <<pexobj, sys>>
    /\ pc' = "done"
    /\ UNCHANGED <<current, argv, sel>>
    /\ UNCHANGED venv_vars

Next == MaybeReexecPex \/ Execute \/ ExecuteEntry

Spec == LaunchInit /\ [][Next]_vars

-----------------------------------------------------------------------------
(* Properties of a launch *)

\* C1: from a launch with the guard variable unset, os.execv of maybe_reexec_pex is
\* passed at most once: after the exec the process holds the guard, and its run of
\* maybe_reexec_pex removes the guard and returns to execution with no further
\* interpreter selection and no further exec.
C1_AtMostOneReexec ==
    hist.env0[BLESSED] = None =>
        /\ Len(hist.execs) <= 1
        /\ hist.entries <= 2
        /\ hist.selections <= 1
        /\ (Len(hist.execs) = 1 /\ hist.entries = 1) =>
               (pc = "bootstrap" /\ environ[BLESSED] = One)
        /\ (Len(hist.execs) = 1 /\ hist.entries = 2) =>
               /\ hist.last = "guard"
               /\ environ[BLESSED] = None
               /\ pc \in {"execute", "dispatch", "done"}

C1_Witness ==
    /\ hist.env0[BLESSED] = None
    /\ Len(hist.execs) = 1
    /\ hist.entries = 2
    /\ hist.last = "guard"
    /\ pc = "execute"

\* the target maybe_reexec_pex compares with the running interpreter
SelTarget ==
    IF pexobj.inherit_path = "false" THEN ResolveBaseInterpreter(sel.found.target)
    ELSE sel.found.target

\* C2: with the guard unset and an interpreter selected, maybe_reexec_pex returns
\* without exec exactly when the target is the running interpreter and PYTHONPATH was
\* unset on entry; otherwise the image is replaced by [target binary] + sys.argv.
C2_InPlaceIffSameInterpreterAndNoPythonpath ==
    (sel.fn = "find" /\ ~sel.found.error.raised) =>
        /\ sel.target = SelTarget
        /\ Len(hist.execs) = 0 <=> (SelTarget = sel.cur /\ sel.env[PYTHONPATH] = None)
        /\ Len(hist.execs) > 0 =>
               /\ hist.execs[1].target = SelTarget
               /\ hist.execs[1].from = sel.cur
               /\ hist.execs[1].cmdline = <<Binary(SelTarget)>> \o argv

C2_Witness ==
    /\ sel.fn = "find"
    /\ ~sel.found.error.raised
    /\ SelTarget = sel.cur
    /\ sel.env[PYTHONPATH] = EmptyStr
    /\ Len(hist.execs) = 1
    /\ hist.execs[1].cmdline = <<Binary(sel.cur)>> \o LaunchArgv

\* what the selection of the launch was given
SelArgs == FindArgs(sel.env[PEX_PYTHON], EnvPexPythonPath(sel.env), sel.t)

\* the identified candidates iter_compatible_interpreters considers
Considered(a, cur) == SelectSeq(IterInterpreters(a, cur), LAMBDA x : x # IdentErr)

\* the candidates iter_compatible_interpreters accepts
Accepted(a, cur) == {i \in SeqToSet(Considered(a, cur)) : ValidInterpreter(a, i) = "ok"}

\* the candidates the interpreter test fails to resolve the PEX with
ResolveFailures(a, cur) ==
    {i \in SeqToSet(Considered(a, cur)) : ValidInterpreter(a, i) = "resolve_error"}

\* nothing is accepted and no constraint is in play: no version predicate, no basename
\* filter, no resolve failure
NoCandidateNoConstraint(a, cur) ==
    /\ Accepted(a, cur) = {}
    /\ ~a.constraints.given
    /\ a.valid_basenames = {}
    /\ ResolveFailures(a, cur) = {}

\* the selection of the launch ran and ended with no candidate and no constraint
SelNoCandidate ==
    /\ sel.fn = "find"
    /\ PinnedInterpreter(sel.env[PEX_PYTHON]) # IdentErr
    /\ NoCandidateNoConstraint(SelArgs, sel.cur)

\* C6 as stated: with no candidate accepted and no constraint in play the selection of
\* a launch raises no unsatisfiable-constraints error and does not terminate the launch.
C6_Original ==
    SelNoCandidate => (~sel.found.error.raised /\ pc # "died")

\* C6: with no candidate accepted and no constraint in play iter_compatible_interpreters
\* raises nothing and _select_path_interpreter returns None, but
\* find_compatible_interpreter then raises the unsatisfiable-constraints error and
\* maybe_reexec_pex terminates the launch.
C6_NoCandidateEndsTheLaunch ==
    SelNoCandidate =>
        /\ ~IterCompatibleInterpreters(SelArgs, sel.cur).error.raised
        /\ IterCompatibleInterpreters(SelArgs, sel.cur).yielded = <<>>
        /\ SelectPathInterpreter(SelArgs, sel.cur) = [target |-> NoInterp, error |-> NoError]
        /\ sel.found.error.raised
        /\ sel.found.target = NoInterp
        /\ sel.found.error.preamble \in {"could not find", "PEX_PYTHON did not meet constraints"}
        /\ pc = "died"
        /\ Len(hist.execs) = 0

C6_Witness ==
    /\ SelNoCandidate
    /\ sel.env[PEX_PYTHON] = None
    /\ sel.env[PEX_PYTHON_PATH] = EmptyDir
    /\ sel.found.error.preamble = "could not find"
    /\ pc = "died"

\* C10: in a launch that has reached entry dispatch patch_sys has been applied exactly
\* once, however many times activate() was called (execute() activates, execute_script
\* activates again).
C10_PatchedExactlyOnce ==
    pc \in {"dispatch", "done"} =>
        /\ sys.patches = 1
        /\ Len(hist.activations) >= 1

C10_Witness ==
    /\ pc = "done"
    /\ hist.dispatched = "script"
    /\ Len(hist.activations) = 2
    /\ sys.patches = 1

\* C21: at every os.execv of maybe_reexec_pex the environment handed to the new image
\* has the guard _PEX_SHOULD_EXIT_BOOTSTRAP_REEXEC set to "1", no PYTHONPATH, no
\* PEX_PYTHON and no PEX_PYTHON_PATH; _PEX_PYTHONPATH is the PYTHONPATH of entry when
\* one was set (the empty string included) and is as it was on entry when none was.
C21_EnvironmentAtExec ==
    \A k \in 1..Len(hist.execs) :
        /\ hist.execs[k].env[BLESSED] = One
        /\ hist.execs[k].env[PYTHONPATH] = None
        /\ hist.execs[k].env[PEX_PYTHON] = None
        /\ hist.execs[k].env[PEX_PYTHON_PATH] = None
        /\ hist.env0[PYTHONPATH] # None =>
               hist.execs[k].env[STASHED_PYTHONPATH] = hist.env0[PYTHONPATH]
        /\ hist.env0[PYTHONPATH] = None =>
               hist.execs[k].env[STASHED_PYTHONPATH] = hist.env0[STASHED_PYTHONPATH]

C21_Witness ==
    /\ Len(hist.execs) = 1
    /\ hist.entries = 1
    /\ hist.env0[PYTHONPATH] = EmptyStr
    /\ hist.env0[STASHED_PYTHONPATH] = <<6>>
    /\ hist.env0[PEX_PYTHON] = Binary(2)
    /\ hist.env0[PEX_PYTHON_PATH] = <<3>>
    /\ hist.execs[1].env[STASHED_PYTHONPATH] = EmptyStr
    /\ environ = hist.execs[1].env

\* the chain the launch was started with: the flag value "1" is the empty chain
ChainOnEntry ==
    IF hist.env0[EXEC_CHAIN] = One THEN <<>> ELSE Split(hist.env0[EXEC_CHAIN])

\* the binary of the interpreter that made the k-th entry into maybe_reexec_pex
ImageBinary(k) ==
    IF k <= Len(hist.execs) THEN Binary(hist.execs[k].from) ELSE Binary(current)

\* the binaries of the first n process images of the launch
ImagesTraversed(n) == [k \in 1..n |-> ImageBinary(k)]

\* C22: with _PEX_EXEC_CHAIN present at the launch, after n entries into
\* maybe_reexec_pex (the guarded one included) the chain is the chain of the launch
\* followed by the binaries of the n interpreters that entered, in order, one element
\* per entry; at the k-th os.execv it holds the first k of them. Started from the flag
\* value "1" its length is the number of entries. Absent at the launch, it stays absent.
C22_ChainGrowsByOnePerEntry ==
    IF hist.env0[EXEC_CHAIN] = None
    THEN environ[EXEC_CHAIN] = None
    ELSE /\ hist.entries <= Len(hist.execs) + 1
         /\ hist.entries >= 1 =>
                environ[EXEC_CHAIN] = Join(ChainOnEntry \o ImagesTraversed(hist.entries))
         /\ hist.entries = 0 => environ[EXEC_CHAIN] = hist.env0[EXEC_CHAIN]
         /\ \A k \in 1..Len(hist.execs) :
                hist.execs[k].env[EXEC_CHAIN] = Join(ChainOnEntry \o ImagesTraversed(k))
         /\ (hist.env0[EXEC_CHAIN] = One /\ hist.entries >= 1) =>
                Len(Split(environ[EXEC_CHAIN])) = hist.entries

C22_Witness ==
    /\ hist.env0[EXEC_CHAIN] = One
    /\ Len(hist.execs) = 1
    /\ hist.execs[1].from = 1
    /\ hist.execs[1].target = 2
    /\ hist.execs[1].env[EXEC_CHAIN] = Binary(1)
    /\ hist.entries = 2
    /\ hist.last = "guard"
    /\ environ[EXEC_CHAIN] = Join(<<Binary(1), Binary(2)>>)

-----------------------------------------------------------------------------
(* SpecSelect: iter_compatible_interpreters and _select_path_interpreter called with
   arguments drawn from the machine *)

SelectPaths ==
    {NoPaths, <<>>, << <<3>> >>, << <<4>> >>, << <<4>>, <<3>> >>, <<EmptyDir>>, <<LinkDir>>,
     <<Binary(1), BrokenBinary>>}

SelectArgs ==
    [path : SelectPaths,
     valid_basenames : {{}, {<<7>>}, {<<8>>}, {<<9>>}},
     constraints : {[given |-> FALSE, match |-> {}]}
                   \cup {[given |-> TRUE, match |-> m] : m \in SUBSET Interps},
     preferred : {NoInterp} \cup Interps,
     test : {[given |-> FALSE, fails |-> {}]}
            \cup {[given |-> TRUE, fails |-> f] : f \in {{}, {1}, Interps \ {1}, Interps}}]

SelectInit ==
    /\ pc = "call"
    /\ current \in Interps
    /\ \E a \in SelectArgs : sel = [fn |-> "none", a |-> a]
    /\ environ = NoEnv
    /\ argv = <<>>
    /\ pexobj = IdlePex
    /\ sys = StdSys
    /\ hist = IdleHist
    /\ pex_root = NoPexRoot
    /\ procs = NoProcs

\* iter_compatible_interpreters(...) run to exhaustion
CallIterCompatibleInterpreters ==
    /\ pc = "call"
    /\ pc' = "returned"
    /\ sel' = [fn |-> "iter", a |-> sel.a, out |-> IterCompatibleInterpreters(sel.a, current)]
    /\ UNCHANGED <<environ, current, argv, hist, pexobj, sys>>
    /\ UNCHANGED venv_vars

\* _select_path_interpreter(...)
CallSelectPathInterpreter ==
    /\ pc = "call"
    /\ pc' = "returned"
    /\ sel' = [fn |-> "select", a |-> sel.a, out |-> SelectPathInterpreter(sel.a, current)]
    /\ UNCHANGED <<environ, current, argv, hist, pexobj, sys>>
    /\ UNCHANGED venv_vars

NextSelect == CallIterCompatibleInterpreters \/ CallSelectPathInterpreter

SpecSelect == SelectInit /\ [][NextSelect]_vars

\* the preferred interpreter of _select_path_interpreter
PreferredOf(a, cur) == IF a.preferred # NoInterp THEN a.preferred ELSE cur

\* i is of the smallest major.minor among set and, within that, of the largest patch
MinVersionLatestPatch(i, set) ==
    /\ i \in set
    /\ \A j \in set :
           \/ MinorOf(i) < MinorOf(j)
           \/ MinorOf(i) = MinorOf(j) /\ PatchOf(i) >= PatchOf(j)

\* C4: _select_path_interpreter returns the preferred interpreter if it is accepted,
\* else the running interpreter if it is accepted, else the accepted interpreter of the
\* smallest major.minor and the largest patch within it; what it returns is accepted,
\* and it returns None only when nothing is accepted.
C4_SelectionOrder ==
    (sel.fn = "select" /\ ~sel.out.error.raised) =>
        LET acc == Accepted(sel.a, current)
            pref == PreferredOf(sel.a, current)
            target == sel.out.target
        IN  /\ pref \in acc => target = pref
            /\ (pref \notin acc /\ current \in acc) => target = current
            /\ (pref \notin acc /\ current \notin acc /\ acc # {}) =>
                   MinVersionLatestPatch(target, acc)
            /\ target # NoInterp => target \in acc
            /\ target = NoInterp <=> acc = {}

\* the preferred interpreter is accepted, and so is the running interpreter
C4_Witness ==
    /\ sel.fn = "select"
    /\ ~sel.out.error.raised
    /\ sel.a.preferred # NoInterp
    /\ sel.a.preferred # current
    /\ sel.out.target = sel.a.preferred
    /\ current \in Accepted(sel.a, current)
    /\ Cardinality(Accepted(sel.a, current)) >= 2


MatchesConstraints(a, i) == a.constraints.given => i \in a.constraints.match

\* the resolve test of the interpreter succeeds, when a test is given
ResolvesPex(a, i) == a.test.given => i \notin a.test.fails

\* C23: iter_compatible_interpreters yields exactly the enumerated candidates that match
\* the interpreter constraints (when given) and pass the resolve test (when given), in
\* the order enumerated. A candidate whose test returns a ResolveError is not yielded
\* and does not end the enumeration: the candidates after it are still tested and
\* yielded, and when the error is raised it names every such failure.
C23_YieldsExactlyTheMatchingAndResolving ==
    sel.fn = "iter" =>
        /\ sel.out.yielded =
               SelectSeq(Considered(sel.a, current),
                         LAMBDA i : MatchesConstraints(sel.a, i) /\ ResolvesPex(sel.a, i))
        /\ \A i \in SeqToSet(Considered(sel.a, current)) :
               (MatchesConstraints(sel.a, i) /\ ~ResolvesPex(sel.a, i)) =>
                   /\ i \notin SeqToSet(sel.out.yielded)
                   /\ sel.out.error.raised =>
                          Constraint("resolve", i) \in SeqToSet(sel.out.error.constraints)
        /\ sel.out.error.raised => sel.out.error.candidates = Considered(sel.a, current)

\* the first candidate fails to resolve the PEX and a later one is yielded
C23_Witness ==
    /\ sel.fn = "iter"
    /\ Len(Considered(sel.a, current)) >= 2
    /\ MatchesConstraints(sel.a, Considered(sel.a, current)[1])
    /\ ~ResolvesPex(sel.a, Considered(sel.a, current)[1])
    /\ sel.a.constraints.given
    /\ Len(sel.out.yielded) >= 1
    /\ \E k \in 2..Len(Considered(sel.a, current)) :
           Considered(sel.a, current)[k] = sel.out.yielded[1]

\* the binary is an entry of the search path or a file of a directory that is one, the
\* entries taken with symbolic links resolved
OnSearchPath(binary, path) ==
    \E k \in 1..Len(path) :
        CanonicalizePath(path[k]) = binary \/ CanonicalizePath(path[k]) = Dirname(binary)

\* an explicit search path was passed: not None and not empty
PathGiven(a) == a.path # NoPaths /\ Len(a.path) > 0

\* C24: when iter_compatible_interpreters is given an explicit search path, every item
\* it considers (identified or not) is an entry of that path or a file of a directory
\* on it, never an interpreter found only on $PATH; the running interpreter, or the
\* preferred one when given, is considered only if its binary or the directory that
\* holds it is on the path.
C24_CandidatesComeFromTheGivenPath ==
    (sel.fn = "iter" /\ PathGiven(sel.a)) =>
        /\ \A x \in SeqToSet(IterInterpreters(sel.a, current)) :
               OnSearchPath(ItemBinary(x), sel.a.path)
        /\ \A i \in SeqToSet(sel.out.yielded) \cup SeqToSet(sel.out.error.candidates) :
               OnSearchPath(Binary(i), sel.a.path)
        /\ ~OnSearchPath(Binary(PreferredOf(sel.a, current)), sel.a.path) =>
               /\ PreferredOf(sel.a, current) \notin SeqToSet(sel.out.yielded)
               /\ PreferredOf(sel.a, current) \notin SeqToSet(sel.out.error.candidates)

\* the running interpreter is on $PATH and would be accepted, but is not on the path
\* given, and another interpreter is yielded
C24_Witness ==
    /\ sel.fn = "iter"
    /\ sel.a.path = << <<4>> >>
    /\ sel.a.preferred = NoInterp
    /\ current = 2
    /\ MatchesConstraints(sel.a, 2) /\ ResolvesPex(sel.a, 2)
    /\ sel.a.valid_basenames = {}
    /\ Len(sel.out.yielded) >= 1
    /\ 2 \notin SeqToSet(sel.out.yielded)

-----------------------------------------------------------------------------
(* SpecStash: stash_pythonpath then unstash_pythonpath *)

StashEnvs ==
    {[NoEnv EXCEPT ![PYTHONPATH] = pp, ![STASHED_PYTHONPATH] = st, ![BLESSED] = g,
                   ![PEX_PYTHON] = py, ![PEX_EXTRA_SYS_PATH] = ex] :
        pp \in {None, EmptyStr, <<5>>, <<5, Sep, 6>>},
        st \in {None, EmptyStr, <<6>>},
        g \in {None, One},
        py \in {None, <<7>>},
        ex \in {None, <<6>>}}

StashInit ==
    /\ pc = "stash"
    /\ environ \in StashEnvs
    /\ hist = [kind |-> "stash", env0 |-> environ, stashed |-> None, unstashed |-> None]
    /\ current = NoInterp
    /\ argv = <<>>
    /\ pexobj = IdlePex
    /\ sel = IdleSel
    /\ sys = StdSys
    /\ pex_root = NoPexRoot
    /\ procs = NoProcs

\* PEX.stash_pythonpath()
CallStashPythonpath ==
    /\ pc = "stash"
    /\ pc' = "unstash"
    /\ environ' = StashPythonpath(environ).env
    /\ hist' = [hist EXCEPT !.stashed = StashPythonpath(environ).ret]
    /\ UNCHANGED <<current, argv, pexobj, sel, sys>>
    /\ UNCHANGED venv_vars

\* PEX.unstash_pythonpath()
CallUnstashPythonpath ==
    /\ pc = "unstash"
    /\ pc' = "done"
    /\ environ' = UnstashPythonpath(environ).env
    /\ hist' = [hist EXCEPT !.unstashed = UnstashPythonpath(environ).ret]
    /\ UNCHANGED <<current, argv, pexobj, sel, sys>>
    /\ UNCHANGED venv_vars

NextStash == CallStashPythonpath \/ CallUnstashPythonpath

SpecStash == StashInit /\ [][NextStash]_vars

\* C3: with _PEX_PYTHONPATH absent, stash_pythonpath followed by unstash_pythonpath
\* leaves the environment as it was, PYTHONPATH unset, empty or not, and both calls
\* return the original value of PYTHONPATH.
C3_StashUnstashRoundTrip ==
    (pc = "done" /\ hist.env0[STASHED_PYTHONPATH] = None) =>
        /\ environ = hist.env0
        /\ environ[STASHED_PYTHONPATH] = None
        /\ hist.stashed = hist.env0[PYTHONPATH]
        /\ hist.unstashed = hist.env0[PYTHONPATH]

C3_Witness ==
    /\ pc = "done"
    /\ hist.env0[STASHED_PYTHONPATH] = None
    /\ hist.env0[PYTHONPATH] = EmptyStr
    /\ environ[PYTHONPATH] = EmptyStr
    /\ hist.unstashed = EmptyStr

-----------------------------------------------------------------------------
(* SpecScrub: patch_sys applied to a host runtime *)

ScrubEnvs ==
    {[NoEnv EXCEPT ![STASHED_PYTHONPATH] = st, ![PEX_INHERIT_PATH] = ip,
                   ![PEX_EXTRA_SYS_PATH] = ex, ![PEX] = px] :
        st \in {None, EmptyStr, <<5>>, <<5, Sep, 1>>},
        ip \in {None, FalseStr, PreferStr, FallbackStr},
        ex \in {None, <<5, 7>>, <<6, Sep, 5, 7>>},
        px \in {None, <<2, 9>>}}

\* sys.path of the hosts: with site-packages by name and by symlink, an extras path
\* hosting distributions, an entry injected by calling code, a repeated entry
ScrubSysPaths ==
    {StdSys.path,
     << PexFile, <<1>>, SiteLink, <<5, 7>> >>,
     << <<6>>, <<6, 7>>, BootstrapPath, <<1>>, <<6>> >>,
     << <<1>>, <<2, 8, 1>> >>}

ScrubImporterCaches ==
    {StdSys.path_importer_cache,
     << PexFile, <<6, 7, 9>>, SitePackages >>,
     << <<6>>, <<5, 8>>, <<1>> >>}

ModuleFiles == {None, EmptyStr, <<1, 9>>, <<1, 7, 9>>, <<5, 9>>}
ModulePaths ==
    {NoPaths, NotAList, <<>>, << <<1, 9>> >>, << <<1, 7, 9>>, <<1, 9>> >>, << <<1, 7, 9>> >>,
     << <<1, 9>>, <<1, 7, 9>>, <<2, 9>> >>}
ModuleNames == {"_virtualenv", "pkg"}
ModuleTables == [ModuleNames -> [file : ModuleFiles, path : ModulePaths]]

\* the hosts patch_sys is applied to: every sys.path and importer cache with the
\* modules of StdSys, and every module table with the sys.path of StdSys
ScrubSystems ==
    {[StdSys EXCEPT !.path = p, !.path_importer_cache = c, !.py3 = py3] :
        p \in ScrubSysPaths, c \in ScrubImporterCaches, py3 \in BOOLEAN}
    \cup {[StdSys EXCEPT !.modules = m, !.host = [StdHost EXCEPT !.is_venv = v]] :
        m \in ModuleTables, v \in BOOLEAN}

ScrubInit ==
    /\ pc = "scrub"
    /\ sys \in ScrubSystems
    /\ environ \in ScrubEnvs
    /\ sys.modules = StdSys.modules \/ environ = NoEnv
    /\ \E ip \in {"false", "prefer", "fallback"} : pexobj = NewPex(ip, <<>>)
    /\ hist = [kind |-> "scrub", env0 |-> environ, sys0 |-> sys]
    /\ current = NoInterp
    /\ argv = <<>>
    /\ sel = IdleSel
    /\ pex_root = NoPexRoot
    /\ procs = NoProcs

\* PEX.patch_sys()
CallPatchSys ==
    /\ pc = "scrub"
    /\ pc' = "scrubbed"
    /\ sys' = PatchSys(pexobj, sys, environ).sys
    /\ environ' = PatchSys(pexobj, sys, environ).env
    /\ UNCHANGED <<current, argv, hist, pexobj, sel>>
    /\ UNCHANGED venv_vars

NextScrub == CallPatchSys

SpecScrub == ScrubInit /\ [][NextScrub]_vars

\* the classifier patch_sys scrubbed with
ScrubIso == ForPex(hist.sys0.host, pexobj.pex, hist.env0[PEX])
\* the inherit-path policy patch_sys scrubbed under
ScrubPolicy == EffectiveInheritPath(pexobj, hist.env0)
\* the entries appended from PEX_EXTRA_SYS_PATH
ScrubExtras == EnvExtraSysPath(hist.env0)
\* the entries of the user's PYTHONPATH that were not on sys.path
ScrubUser ==
    IF hist.env0[STASHED_PYTHONPATH] = None THEN {}
    ELSE SeqToSet(Split(hist.env0[STASHED_PYTHONPATH])) \ SeqToSet(hist.sys0.path)
\* the tainted entries of the original sys.path
ScrubTainted == {e \in SeqToSet(hist.sys0.path) : ~Contains(ScrubIso, e)}
\* the entries the host contributed that host distributions, the user site, and the
\* locations of their distributions
ScrubDistributionPaths ==
    UNION {AllDistributionPaths(e) : e \in {t \in ScrubTainted : DistLocations(t) # {}}}
    \cup AllDistributionPaths(hist.sys0.user_site)
\* sys.path without the entries appended from PEX_EXTRA_SYS_PATH
ScrubbedPart == SubSeq(sys.path, 1, Len(sys.path) - Len(ScrubExtras))

\* C7 as stated: after patch_sys under every policy each entry of sys.path is
\* sanctioned, or from PEX_EXTRA_SYS_PATH, or a user PYTHONPATH entry restored under
\* PREFER or FALLBACK, and the tainted host entries hosting distributions and their
\* distribution locations are removed, under PREFER too.
C7_Original ==
    pc = "scrubbed" =>
        /\ \A e \in SeqToSet(sys.path) :
               \/ Contains(ScrubIso, e)
               \/ e \in SeqToSet(ScrubExtras)
               \/ ScrubPolicy \in {"prefer", "fallback"} /\ e \in ScrubUser
        /\ SeqToSet(ScrubbedPart) \cap (ScrubDistributionPaths \ ScrubUser) = {}

\* C7: after patch_sys under the policy FALSE each entry of sys.path is sanctioned or
\* from PEX_EXTRA_SYS_PATH, and the tainted entries, the user site and the locations
\* of their distributions are removed; under PREFER and FALLBACK nothing is removed:
\* sys.path is the original path without repeats, tainted entries included, with the
\* user's PYTHONPATH entries before it (PREFER) or after it (FALLBACK), then the
\* entries of PEX_EXTRA_SYS_PATH.
C7_ScrubOnlyWithoutInheritance ==
    pc = "scrubbed" =>
        /\ sys.path = ScrubbedPart \o ScrubExtras
        /\ ScrubPolicy = "false" =>
               /\ \A e \in SeqToSet(ScrubbedPart) : Contains(ScrubIso, e)
               /\ SeqToSet(ScrubbedPart) \cap (ScrubTainted \cup ScrubDistributionPaths) = {}
               /\ SeqToSet(ScrubbedPart) \subseteq SeqToSet(hist.sys0.path)
        /\ ScrubPolicy \in {"prefer", "fallback"} =>
               /\ SeqToSet(ScrubbedPart) = SeqToSet(hist.sys0.path) \cup ScrubUser
               /\ ScrubTainted \subseteq SeqToSet(ScrubbedPart)
               /\ LET n == Cardinality(ScrubUser)
                      m == Len(ScrubbedPart)
                  IN  IF ScrubPolicy = "prefer"
                      THEN SubSeq(ScrubbedPart, n + 1, m) = Dedupe(hist.sys0.path)
                      ELSE SubSeq(ScrubbedPart, 1, m - n) = Dedupe(hist.sys0.path)

\* under PREFER the extras path hosting distributions stays on sys.path, behind the
\* restored user entry
C7_Witness ==
    /\ pc = "scrubbed"
    /\ ScrubPolicy = "prefer"
    /\ hist.env0[STASHED_PYTHONPATH] = <<5>>
    /\ <<6>> \in ScrubTainted
    /\ sys.path[1] = <<5>>
    /\ <<6>> \in SeqToSet(ScrubbedPart)


\* C8: after the scrub every module left in sys.modules has no file backing, or a
\* file the classifier sanctions, or is the module named _virtualenv in a virtual
\* environment; no other module with an unsanctioned file survives.
C8_ModulesSanctioned ==
    pc = "scrubbed" =>
        \A name \in DOMAIN sys.modules :
            \/ ~Truthy(sys.modules[name].file)
            \/ Contains(ScrubIso, sys.modules[name].file)
            \/ name = "_virtualenv" /\ hist.sys0.host.is_venv

\* in a virtual environment _virtualenv survives with a tainted file and the other
\* module, of the same file, is dropped
C8_Witness ==
    /\ pc = "scrubbed"
    /\ hist.sys0.host.is_venv
    /\ DOMAIN hist.sys0.modules = ModuleNames
    /\ hist.sys0.modules["pkg"].file = <<1, 7, 9>>
    /\ hist.sys0.modules["_virtualenv"].file = <<1, 7, 9>>
    /\ DOMAIN sys.modules = {"_virtualenv"}

\* the user's PYTHONPATH entries patch_sys restores: those of _PEX_PYTHONPATH that are
\* not on the original sys.path, each once, in order
RestoredUserEntries ==
    IF hist.env0[STASHED_PYTHONPATH] = None THEN <<>>
    ELSE SelectSeq(Dedupe(Split(hist.env0[STASHED_PYTHONPATH])),
                   LAMBDA e : e \notin SeqToSet(hist.sys0.path))

\* the entries of the original sys.path the scrub keeps, each once, in their original
\* order: all of them under PREFER and FALLBACK
RetainedEntries ==
    SelectSeq(Dedupe(hist.sys0.path),
              LAMBDA e : ScrubPolicy # "false"
                         \/ e \notin (ScrubTainted \cup ScrubDistributionPaths))

\* C26: the sys.path patch_sys leaves is, in this order: under PREFER the restored user
\* PYTHONPATH entries that were not on sys.path; the retained entries of the original
\* sys.path in their original relative order; under FALLBACK those user entries; the
\* PEX_EXTRA_SYS_PATH entries in order as the last elements. Under FALSE the restored
\* user entries are put nowhere.
C26_OrderOfTheScrubbedPath ==
    pc = "scrubbed" =>
        sys.path = (IF ScrubPolicy = "prefer" THEN RestoredUserEntries ELSE <<>>)
                   \o RetainedEntries
                   \o (IF ScrubPolicy = "fallback" THEN RestoredUserEntries ELSE <<>>)
                   \o ScrubExtras

\* under PREFER: one user entry in front (the other was on sys.path), the original
\* entries, two extra entries at the end
C26_Witness ==
    /\ pc = "scrubbed"
    /\ ScrubPolicy = "prefer"
    /\ hist.env0[STASHED_PYTHONPATH] = <<5, Sep, 1>>
    /\ hist.env0[PEX_EXTRA_SYS_PATH] = <<6, Sep, 5, 7>>
    /\ hist.sys0.path = StdSys.path
    /\ sys.path = << <<5>> >> \o StdSys.path \o << <<6>>, <<5, 7>> >>

\* scrub_paths of the scrub: under the policy FALSE the tainted entries, the user site
\* and the locations of their distributions
ScrubbedLocations ==
    IF ScrubPolicy = "false" THEN ScrubTainted \cup ScrubDistributionPaths ELSE {}

\* the keys of the importer cache before the scrub that are gone after it
RemovedCacheKeys ==
    SeqToSet(hist.sys0.path_importer_cache) \ SeqToSet(sys.path_importer_cache)

HadListPath(name) ==
    /\ name \in DOMAIN hist.sys0.modules
    /\ hist.sys0.modules[name].path \notin {NoPaths, NotAList}

\* the entries of the module's original __path__ the classifier sanctions, in order
SanctionedPathEntries(name) ==
    SelectSeq(hist.sys0.modules[name].path, LAMBDA e : Contains(ScrubIso, e))

\* C28: a module that is in sys.modules after the scrub and had a list for __path__
\* has as __path__ exactly the sanctioned entries of the original list, in the original
\* order, and at least one; a package none of whose entries is sanctioned (an empty
\* list included) is not in sys.modules after the scrub.
C28_PackagePathsFiltered ==
    pc = "scrubbed" =>
        \A name \in DOMAIN hist.sys0.modules :
            HadListPath(name) =>
                /\ name \in DOMAIN sys.modules =>
                       /\ sys.modules[name].path = SanctionedPathEntries(name)
                       /\ Len(sys.modules[name].path) > 0
                /\ SanctionedPathEntries(name) = <<>> => name \notin DOMAIN sys.modules

\* one package keeps the two sanctioned entries around a tainted one, the other is
\* dropped because its only entry is tainted, its file being sanctioned
C28_Witness ==
    /\ pc = "scrubbed"
    /\ DOMAIN hist.sys0.modules = ModuleNames
    /\ hist.sys0.modules["pkg"].path = << <<1, 9>>, <<1, 7, 9>>, <<2, 9>> >>
    /\ hist.sys0.modules["_virtualenv"].path = << <<1, 7, 9>> >>
    /\ hist.sys0.modules["_virtualenv"].file = <<1, 9>>
    /\ DOMAIN sys.modules = {"pkg"}
    /\ sys.modules["pkg"].path = << <<1, 9>>, <<2, 9>> >>

\* C29: a module whose __path__ is present but is not a list is not in sys.modules
\* after the scrub, whatever its file: sanctioned, tainted or none, and _virtualenv in
\* a virtual environment too.
C29_NonListPackagePathDropped ==
    pc = "scrubbed" =>
        \A name \in DOMAIN hist.sys0.modules :
            hist.sys0.modules[name].path = NotAList => name \notin DOMAIN sys.modules

\* the module with a sanctioned file and a __path__ that is not a list is dropped, the
\* module of the same file without __path__ stays
C29_Witness ==
    /\ pc = "scrubbed"
    /\ DOMAIN hist.sys0.modules = ModuleNames
    /\ hist.sys0.modules["pkg"].file = <<1, 9>>
    /\ Contains(ScrubIso, <<1, 9>>)
    /\ hist.sys0.modules["pkg"].path = NotAList
    /\ hist.sys0.modules["_virtualenv"] = [file |-> <<1, 9>>, path |-> NoPaths]
    /\ DOMAIN sys.modules = {"_virtualenv"}

\* some expansion of the entry (as given, absolute, realpath) lies under a rejected
\* site-packages or extras entry
HasRejectedExpansion(iso, entry) ==
    \E x \in SeqToSet(ExpandPaths(<<entry>>)) :
        StartsWithAny(x, iso.site_packages_entries \cup iso.extras_paths_entries)

\* C25 as stated: an entry of sys.path of which any expansion (as given, absolute form,
\* realpath) lies under a rejected site-packages or extras entry is classified as not
\* sanctioned, even when another of its expansions lies under an allowed entry, and so
\* is not on sys.path after a scrub under the policy FALSE.
C25_RejectionNeverLosesToAcceptance ==
    pc = "scrubbed" =>
        \A e \in SeqToSet(hist.sys0.path) :
            HasRejectedExpansion(ScrubIso, e) =>
                /\ ~Contains(ScrubIso, e)
                /\ ScrubPolicy = "false" => e \notin SeqToSet(ScrubbedPart)

-----------------------------------------------------------------------------
(* SpecPex: activate() called again and again on one PEX object *)

\* how many times activate() is called
MaxCalls == 3
\* how many times the activation raises
MaxRaises == 2

\* the distributions one mounted archive holds, in the order it activates them
MountContents ==
    {<<>>} \cup {<<d>> : d \in Dists}
    \cup {p \in Dists \X Dists : p[1] # p[2]}

RECURSIVE MountsOfLength(_)
MountsOfLength(n) ==
    IF n = 0 THEN {<<>>}
    ELSE {Append(m, c) : m \in MountsOfLength(n - 1), c \in MountContents}

PexMounts == UNION {MountsOfLength(n) : n \in 1..MaxMounts}

PexEnvs ==
    {[NoEnv EXCEPT ![STASHED_PYTHONPATH] = st, ![PEX_EXTRA_SYS_PATH] = ex] :
        st \in {None, <<5>>}, ex \in {None, <<5, 7>>}}

PexInit ==
    /\ pc = "activate"
    /\ \E ip \in {"false", "prefer", "fallback"}, mounts \in PexMounts :
           pexobj = NewPex(ip, mounts)
    /\ environ \in PexEnvs
    /\ sys = StdSys
    /\ hist = [kind |-> "pex", returns |-> <<>>, raised |-> 0,
               resolved |-> [called |-> FALSE, dists |-> <<>>]]
    /\ current = NoInterp
    /\ argv = <<>>
    /\ sel = IdleSel
    /\ pex_root = NoPexRoot
    /\ procs = NoProcs

\* pex.activate()
CallActivate ==
    /\ pc = "activate"
    /\ Len(hist.returns) < MaxCalls
    /\ pexobj' = PexActivate(pexobj, sys, environ).pex
    /\ sys' = PexActivate(pexobj, sys, environ).sys
    /\ environ' = PexActivate(pexobj, sys, environ).env
    /\ hist' = [hist EXCEPT !.returns = Append(hist.returns, PexActivate(pexobj, sys, environ).ret)]
    /\ UNCHANGED <<pc, current, argv, sel>>
    /\ UNCHANGED venv_vars

\* list(pex.resolve())
CallResolve ==
    /\ pc = "activate"
    /\ ~hist.resolved.called
    /\ hist' = [hist EXCEPT !.resolved = [called |-> TRUE, dists |-> PexResolve(pexobj)]]
    /\ UNCHANGED <<environ, pc, current, argv, pexobj, sel, sys>>
    /\ UNCHANGED venv_vars

\* pex.activate() with _activate raising at mount k, or past the last mount in the
\* declaration of the namespace packages
CallActivateRaises ==
    /\ pc = "activate"
    /\ pexobj.activated = NoList
    /\ hist.raised < MaxRaises
    /\ \E k \in 1..(Len(pexobj.mounts) + 1) :
          /\ pexobj' = ActivateRaised(pexobj, PatchSys(pexobj, sys, environ), k).pex
          /\ sys' = ActivateRaised(pexobj, PatchSys(pexobj, sys, environ), k).sys
          /\ environ' = ActivateRaised(pexobj, PatchSys(pexobj, sys, environ), k).env
    /\ hist' = [hist EXCEPT !.raised = @ + 1]
    /\ UNCHANGED <<pc, current, argv, sel>>
    /\ UNCHANGED venv_vars

NextPex == CallActivate \/ CallResolve \/ CallActivateRaises

SpecPex == PexInit /\ [][NextPex]_vars

\* C9: every call of activate() on a PEX object returns the list the first call
\* returned: the same list object (id), holding the same distributions in the same
\* order.
C9_ActivateReturnsTheCachedList ==
    hist.kind = "pex" =>
        \A k \in 1..Len(hist.returns) :
            /\ hist.returns[k].id = hist.returns[1].id
            /\ hist.returns[k].dists = hist.returns[1].dists
            /\ hist.returns[k] = pexobj.activated
            /\ hist.returns[k].dists = Flatten(pexobj.mounts)

\* activate() was called three times on a PEX that activates no distribution
C9_Witness ==
    /\ hist.kind = "pex"
    /\ Len(hist.returns) = 3
    /\ hist.returns[3].dists = <<>>
    /\ hist.returns[3].id = hist.returns[1].id


\* no distribution occurs twice in the sequence
NoRepeats(dists) ==
    \A i, j \in 1..Len(dists) : i # j => dists[i] # dists[j]

\* the distributions are those of the mounts, in the order of their first occurrence
\* across the mounts, the primary archive first
FirstOccurrenceOrder(dists) ==
    /\ SeqToSet(dists) = SeqToSet(Flatten(pexobj.mounts))
    /\ \A i, j \in 1..Len(dists) :
           i < j => \E m \in 1..Len(Flatten(pexobj.mounts)) :
                       /\ Flatten(pexobj.mounts)[m] = dists[i]
                       /\ \A n \in 1..m : Flatten(pexobj.mounts)[n] # dists[j]

\* C30 as stated: neither the sequence PEX.resolve() yields nor the list
\* PEX.activate() returns holds a distribution twice, and both keep the order of
\* first occurrence across the mounts, the primary archive first.
C30_NoDistributionTwice ==
    hist.kind = "pex" =>
        /\ hist.resolved.called =>
               (NoRepeats(hist.resolved.dists) /\ FirstOccurrenceOrder(hist.resolved.dists))
        /\ \A k \in 1..Len(hist.returns) :
               NoRepeats(hist.returns[k].dists) /\ FirstOccurrenceOrder(hist.returns[k].dists)

\* the part of C30 about PEX.resolve(), which skips what it has seen
ResolveHasNoDistributionTwice ==
    (hist.kind = "pex" /\ hist.resolved.called) =>
        (NoRepeats(hist.resolved.dists) /\ FirstOccurrenceOrder(hist.resolved.dists))

-----------------------------------------------------------------------------
(* SpecVenv: processes that run ensure_venv for the same PEX at the same time *)

\* the processes launching the PEX concurrently
NumProcs == 2
Procs == 1..NumProcs

\* range(8, len(venv_hash) + 1): the prefix lengths of the SHA-1 hex digest
FirstChars == 8
HashChars == 40
Prefixes == FirstChars..HashChars

\* pex_info.runtime_venv_dir(...) of this PEX, and the venv directory of another PEX
VenvDir == <<4, 7>>
OtherVenvDir == <<4, 8>>

\* everything of a launch, which ensure_venv leaves alone
launch_vars == <<environ, pc, current, argv, hist, sel, sys>>

\* a directory that does not exist, and a directory with its entries
AbsentDir == [finalized |-> FALSE, content |-> {}]
Dir(content) == [finalized |-> TRUE, content |-> content]

\* what a venv directory holds when writer w wrote all of it: the virtualenv that
\* Virtualenv.create_atomic makes and the code populate_venv installs
CompleteVenv(w) == {<<w, "virtualenv">>, <<w, "code">>}

\* an alias directory made without its symlink
NoVenvSymlink(target) == {}

\* os.symlink(venv_dir, os.path.join(short_venv.work_dir, "venv"))
VenvSymlink(target) == {<<"venv", target>>}

\* AtomicDirectory.is_finalized: the target directory exists
IsFinalized(dir) == dir.finalized

\* atomic_directory left without exception: the work directory is renamed to the
\* target, unless the target exists by now and the work directory is discarded
Finalize(dir, work) == IF dir.finalized THEN dir ELSE Dir(work)

\* Virtualenv.create_atomic writing to the venv directory itself
VirtualenvCreateInPlace(root, p, work) ==
    [root |-> [root EXCEPT !.venv = Dir(root.venv.content \cup {<<p, "virtualenv">>})],
     work |-> work]

\* Virtualenv.create_atomic(venv_dir=venv, ...): the virtualenv is made in the work
\* directory of the atomic directory
VirtualenvCreateAtomic(root, p, work) ==
    [root |-> root, work |-> work \cup {<<p, "virtualenv">>}]

\* BINPRM_BUF_SIZE as ensure_venv takes it: len(shebang) > 128
ShebangLimit == 128

\* len(shebang) of the launcher populate_venv writes, "#!" and the path of the python
\* of the alias: everything but the prefix, and the prefix
ShebangLen(root, chars) == root.shebang_base + chars

\* the python of a launcher that goes through the alias of the shortest prefix
PythonOfFirstAlias(chars) == FirstChars

\* python=os.path.join(short_venv_dir, "venv", "bin", ...): the alias the shebang of
\* the launcher goes through
PythonOfAlias(chars) == chars

\* an alias taken as it is found, finalized or not
ShortVenvNeverFinalized(root, chars) == FALSE

\* short_venv.is_finalized() inside atomic_directory(short_venv_dir)
ShortVenvIsFinalized(root, chars) == IsFinalized(root.short[chars])

\* a process that has not called ensure_venv yet; shebang is the alias its launcher
\* goes through (0: no launcher written), warned whether the warning was emitted,
\* aliased whether its alias was renamed into place
NewProc == [pc |-> "start", chars |-> FirstChars, collisions |-> <<>>, work |-> {},
            short_work |-> {}, error |-> "none", ret |-> None, won |-> FALSE,
            shebang |-> 0, warned |-> FALSE, aliased |-> FALSE]

\* PEX-INFO as ensure_venv reads it: the venv directory (None for a PEX that is not
\* in venv mode) and whether the PEX was built with tools
VenvInfos ==
    {[pex |-> PexFile, venv_dir |-> VenvDir, includes_tools |-> TRUE],
     [pex |-> PexFile, venv_dir |-> None, includes_tools |-> TRUE],
     [pex |-> PexFile, venv_dir |-> VenvDir, includes_tools |-> FALSE]}

\* the aliases earlier launches of other PEXes left: the n shortest prefixes taken
OtherAliases(n) ==
    [k \in Prefixes |-> IF k < FirstChars + n THEN Dir(VenvSymlink(OtherVenvDir)) ELSE AbsentDir]

\* the lengths of a shebang without its prefix: with the shortest prefix the shebang
\* is one short of the limit, at the limit, or one over it
ShebangBases ==
    {ShebangLimit - FirstChars - 1, ShebangLimit - FirstChars, ShebangLimit - FirstChars + 1}

\* the cache an earlier launch of this PEX (writer 0) left after n aliases of other
\* PEXes: its venv, and its alias under the first prefix that was free
BuiltRoot(n, base) ==
    [venv |-> Dir(CompleteVenv(0)),
     short |-> [OtherAliases(n) EXCEPT ![FirstChars + n] = Dir(VenvSymlink(VenvDir))],
     launcher |-> FirstChars + n, shebang_base |-> base]

\* the venv cache the processes find: the venv absent, with no alias, one alias, all
\* but the full digest, or every prefix taken by other PEXes; or the venv built by an
\* earlier launch. launcher is the alias the shebang of the launcher in the finalized
\* venv goes through (0: no venv)
VenvRoots ==
    {[venv |-> AbsentDir, short |-> OtherAliases(n), launcher |-> 0, shebang_base |-> base] :
        n \in {0, 1, HashChars - FirstChars, HashChars - FirstChars + 1},
        base \in ShebangBases}
    \cup {BuiltRoot(n, base) : n \in {0, 1, HashChars - FirstChars}, base \in ShebangBases}

VenvInit ==
    /\ environ = NoEnv
    /\ pc = "venv"
    /\ current = 1
    /\ argv = LaunchArgv
    /\ hist = IdleHist
    /\ pexobj \in VenvInfos
    /\ sel = IdleSel
    /\ sys = StdSys
    /\ pex_root \in VenvRoots
    /\ procs = [p \in Procs |-> NewProc]

\* ensure_venv up to atomic_directory(venv_dir): the two argument errors, and a venv
\* that is finalized already is returned as it is
EnsureVenvEnter(p) ==
    /\ procs[p].pc = "start"
    /\ procs' = [procs EXCEPT ![p] =
           IF pexobj.venv_dir = None
           THEN [@ EXCEPT !.pc = "raised", !.error = "AssertionError"]
           ELSE IF ~pexobj.includes_tools
           THEN [@ EXCEPT !.pc = "raised", !.error = "ValueError"]
           ELSE IF IsFinalized(pex_root.venv)
           THEN [@ EXCEPT !.pc = "done", !.ret = VenvDir]
           ELSE [@ EXCEPT !.pc = "create"]]
    /\ UNCHANGED <<pex_root, pexobj, launch_vars>>

\* the venv was not finalized: Virtualenv.create_atomic
CreateAtomic(p) ==
    /\ procs[p].pc = "create"
    /\ pex_root' = VirtualenvCreateAtomic(pex_root, p, procs[p].work).root
    /\ procs' = [procs EXCEPT
           ![p].work = VirtualenvCreateAtomic(pex_root, p, procs[p].work).work,
           ![p].pc = "short", ![p].chars = FirstChars]
    /\ UNCHANGED <<pexobj, launch_vars>>

\* one turn of the loop over the prefixes: atomic_directory(short_venv_dir) is
\* entered; a finalized alias is a collision, and at the full digest the fatal error
\* (the work directory of the venv goes with it); else the symlink is made in the
\* work directory of the alias
ShortVenv(p) ==
    /\ procs[p].pc = "short"
    /\ procs' = [procs EXCEPT ![p] =
           IF ShortVenvIsFinalized(pex_root, @.chars)
           THEN IF @.chars = HashChars
                THEN [@ EXCEPT !.collisions = Append(@, procs[p].chars), !.pc = "raised",
                               !.error = "RuntimeError", !.work = {}]
                ELSE [@ EXCEPT !.collisions = Append(@, procs[p].chars),
                               !.chars = @ + 1]
           ELSE [@ EXCEPT !.short_work = VenvSymlink(pexobj.venv_dir), !.pc = "populate"]]
    /\ UNCHANGED <<pex_root, pexobj, launch_vars>>

\* populate_venv(...) installs the code of the PEX into the work directory, the
\* launcher with its shebang; the warning about a shebang longer than the limit
PopulateVenv(p) ==
    /\ procs[p].pc = "populate"
    /\ procs' = [procs EXCEPT
           ![p].work = @ \cup {<<p, "code">>},
           ![p].shebang = PythonOfAlias(procs[p].chars),
           ![p].warned = ShebangLen(pex_root, PythonOfAlias(procs[p].chars)) > ShebangLimit,
           ![p].pc = "short_exit"]
    /\ UNCHANGED <<pex_root, pexobj, launch_vars>>

\* break: atomic_directory(short_venv_dir) is left and the alias finalized
ShortVenvExit(p) ==
    /\ procs[p].pc = "short_exit"
    /\ pex_root' = [pex_root EXCEPT !.short[procs[p].chars] = Finalize(@, procs[p].short_work)]
    /\ procs' = [procs EXCEPT ![p].short_work = {}, ![p].pc = "venv_exit",
                              ![p].aliased = ~IsFinalized(pex_root.short[procs[p].chars])]
    /\ UNCHANGED <<pexobj, launch_vars>>

\* atomic_directory(venv_dir) is left, the venv finalized, and VenvPex(venv_dir)
\* returned
VenvExit(p) ==
    /\ procs[p].pc = "venv_exit"
    /\ pex_root' = [pex_root EXCEPT
           !.venv = Finalize(@, procs[p].work),
           !.launcher = IF IsFinalized(pex_root.venv) THEN @ ELSE procs[p].shebang]
    /\ procs' = [procs EXCEPT ![p].work = {}, ![p].pc = "done", ![p].ret = pexobj.venv_dir,
                              ![p].won = ~IsFinalized(pex_root.venv)]
    /\ UNCHANGED <<pexobj, launch_vars>>

\* the process is killed inside atomic_directory(venv_dir): nothing is renamed or
\* cleaned up, what it finalized stays
Interrupt(p) ==
    /\ procs[p].pc \in {"create", "short", "populate", "short_exit", "venv_exit"}
    /\ procs' = [procs EXCEPT ![p].pc = "killed"]
    /\ UNCHANGED <<pex_root, pexobj, launch_vars>>

NextVenv ==
    \E p \in Procs :
        \/ EnsureVenvEnter(p)
        \/ CreateAtomic(p)
        \/ ShortVenv(p)
        \/ PopulateVenv(p)
        \/ ShortVenvExit(p)
        \/ VenvExit(p)
        \/ Interrupt(p)

SpecVenv == VenvInit /\ [][NextVenv]_vars

\* the venv directory does not exist, or holds all that one writer wrote
VenvAbsentOrComplete ==
    \/ pex_root.venv = AbsentDir
    \/ \E w \in 0..NumProcs : pex_root.venv = Dir(CompleteVenv(w))

\* C11: however the processes running ensure_venv for one venv directory interleave,
\* the venv directory is absent or holds the complete content of one writer, never a
\* part of it; a finalized venv directory is never written again; and every process
\* that returns returns VenvPex of that one directory, which is finalized by then.
C11_VenvNeverPartial ==
    /\ [](/\ VenvAbsentOrComplete
          /\ \A p \in Procs :
                procs[p].pc = "done" =>
                    /\ procs[p].ret = VenvDir
                    /\ IsFinalized(pex_root.venv))
    /\ [][IsFinalized(pex_root.venv) => pex_root'.venv = pex_root.venv]_vars

\* two processes both built the venv; one renamed its work directory into place and
\* the other found the venv finalized and discarded its own
C11_Witness ==
    /\ \A p \in Procs : procs[p].pc = "done"
    /\ \E p \in Procs, q \in Procs :
          /\ p # q
          /\ procs[p].won
          /\ ~procs[q].won
          /\ Len(procs[q].collisions) > 0
          /\ pex_root.venv = Dir(CompleteVenv(p))

\* the alias of k characters is finalized and its symlink leads to another venv
TakenByOtherVenv(k) ==
    /\ IsFinalized(pex_root.short[k])
    /\ pex_root.short[k].content # VenvSymlink(VenvDir)

\* C12 as stated: ensure_venv raises the fatal collision error only when every prefix
\* of 8 to 40 characters is taken by a finalized alias of a different venv directory,
\* and a finalized alias that leads to this venv directory is never counted as a
\* collision.
C12_CollisionsAreOtherVenvs ==
    \A p \in Procs :
        /\ procs[p].error = "RuntimeError" => \A k \in Prefixes : TakenByOtherVenv(k)
        /\ \A i \in 1..Len(procs[p].collisions) : TakenByOtherVenv(procs[p].collisions[i])

-----------------------------------------------------------------------------
(* pex.py: the entry dispatcher, PEX.execute and PEX._execute with their handlers *)

\* command line arguments: "-" is the symbol 45, so "-c", "-m", "-" and an
\* interpreter option such as "-O"
OptC == <<45, 3>>
OptM == <<45, 13>>
StdinArg == <<45>>
OptO == <<45, 15>>
OptE == <<45, 5>>
\* a file named on the command line, a module name, a piece of source
FileArg == <<7>>
ModuleArg == <<8>>
SourceArg == <<8, 9>>

\* Variables.PEX_TOOLS, Variables.PEX_INTERPRETER: the flag is set
EnvFlag(env, name) == env[name] = One

\* what happened, in order: the event and, for the registration of the
\* distributions of a mount, which mount
Ev(e) == [e |-> e, mount |-> 0]
EvMount(k) == [e |-> "register", mount |-> k]

\* what a handler ends with: kind is "returned" (value: the error string, None for
\* no error), "raised" (value: the exception), "execv" (the process image replaced),
\* "external" (a child process ran the script) or "user_code" (user code starts in
\* this process); argv is sys.argv as the handler leaves it, and for "execv" the
\* command line of the new image
Res(kind, value, argv_, events) ==
    [kind |-> kind, value |-> value, argv |-> argv_, events |-> events]

Returned(value, argv_) == Res("returned", value, argv_, <<>>)

\* execute_ast with exec_function first and demote_bootstrap after it
ExecuteAstDemotesLate(name, argv_, argv0) ==
    Res("user_code", "exec",
        [argv_ EXCEPT ![1] = IF Truthy(argv0) THEN argv0 ELSE name],
        <<Ev("user_code"), Ev("demote_bootstrap")>>)

\* PEX.execute_ast: demote_bootstrap, sys.argv[0] = argv0 or name, exec_function
ExecuteAst(name, argv_, argv0) ==
    Res("user_code", "exec",
        [argv_ EXCEPT ![1] = IF Truthy(argv0) THEN argv0 ELSE name],
        <<Ev("demote_bootstrap"), Ev("user_code")>>)

\* PEX.execute_content: compile, a SyntaxError is returned as a string
ExecuteContent(name, argv_, argv0, compiles) ==
    IF ~compiles THEN Returned("Unable to parse", argv_)
    ELSE ExecuteAst(name, argv_, argv0)

\* PEX.execute_module: demote_bootstrap, runpy.run_module
ExecuteModule(module_name, argv_) ==
    Res("user_code", "run_module", argv_, <<Ev("demote_bootstrap"), Ev("user_code")>>)

\* PEX.execute_entry_point: demote_bootstrap, entry_point.resolve()()
ExecuteEntryPoint(entry_point, argv_) ==
    Res("user_code", "runner", argv_, <<Ev("demote_bootstrap"), Ev("user_code")>>)

\* isinstance(entry_point, CallableEntryPoint): "module:attr", 50 being ":"
IsCallableEntryPoint(entry_point) == 50 \in SeqToSet(entry_point)

\* PEX.execute_entry
ExecuteEntryOf(entry_point, argv_) ==
    IF IsCallableEntryPoint(entry_point) THEN ExecuteEntryPoint(entry_point, argv_)
    ELSE ExecuteModule(entry_point, argv_)

\* PEX.execute_external: the script is run as a child process with sys.argv[1:]
ExecuteExternal(binary, argv_, launches) ==
    IF launches THEN Res("external", "wait", argv_, <<Ev("external")>>)
    ELSE Returned("Could not invoke script", argv_)

\* what the distributions hold under a script name: a console script that names a
\* callable or a module, or none, and a script file that is Python source or is not,
\* or none
Lookups == [console : {"none", "callable", "module"},
            script : {"none", "python_script", "external"}]

\* no lookup was made
NoLookup == [console |-> "unread", script |-> "unread"]

\* what runs for a script file of a distribution
ExecuteDistScript(script_name, argv_, w) ==
    IF w.lookup.script = "python_script" THEN ExecuteAst(<<2, 8, 1, 7>>, argv_, script_name)
    ELSE ExecuteExternal(<<2, 8, 1, 7>>, argv_, w.launches)

\* what runs for a console script
ExecuteConsoleScript(argv_, w) ==
    IF w.lookup.console = "callable" THEN ExecuteEntryOf(<<8, 50, 9>>, argv_)
    ELSE ExecuteEntryOf(ModuleArg, argv_)

\* execute_script looking for the script file first and for the console script after
ExecuteScriptFileFirst(script_name, argv_, w) ==
    IF w.lookup.script # "none" THEN ExecuteDistScript(script_name, argv_, w)
    ELSE IF w.lookup.console # "none" THEN ExecuteConsoleScript(argv_, w)
    ELSE Returned("Could not find script", argv_)

\* PEX.execute_script past its activate(): the console script, else the script of a
\* distribution
ExecuteScript(script_name, argv_, w) ==
    IF w.lookup.console # "none" THEN ExecuteConsoleScript(argv_, w)
    ELSE IF w.lookup.script = "none" THEN Returned("Could not find script", argv_)
    ELSE ExecuteDistScript(script_name, argv_, w)

\* PEX.execute_with_options: the PEX is run again under the interpreter options
ExecuteWithOptions(python_options, args, argv_, w) ==
    IF ~w.main_file THEN Returned("Unable to resolve PEX __main__ module file", argv_)
    ELSE Res("execv", "os.execv", <<Binary(1)>> \o python_options \o <<PexFile>> \o args,
             <<Ev("execv")>>)

\* an expected startup argument of the interpreter: starts with "-" and is none of
\* "-", "-c", "-m"
IsPythonOption(arg) == StartsWith(arg, StdinArg) /\ arg \notin {StdinArg, OptC, OptM}

\* the index of the first argument that is no option, 0 when every argument is one
FirstNonOption(args) ==
    IF \A k \in 1..Len(args) : IsPythonOption(args[k]) THEN 0
    ELSE CHOOSE k \in 1..Len(args) :
             ~IsPythonOption(args[k]) /\ \A j \in 1..(k - 1) : IsPythonOption(args[j])

\* python_options of execute_interpreter
PythonOptions(args) ==
    IF FirstNonOption(args) = 0 THEN args ELSE SubSeq(args, 1, FirstNonOption(args) - 1)

\* args of execute_interpreter after its loop: cut at the first argument that is no
\* option, and left whole when the loop ends without a break
RestArgs(args) ==
    IF FirstNonOption(args) = 0 THEN args ELSE SubSeq(args, FirstNonOption(args), Len(args))

\* execute_interpreter with arguments and no options: -c, -m, - or a file
ExecuteInterpreterArgs(args, argv_, w) ==
    IF args[1] = OptC
    THEN IF Len(args) < 2 THEN Res("raised", "IndexError", argv_, <<>>)
         ELSE ExecuteContent(<<45, 3, 1>>, <<OptC>> \o SubSeq(args, 3, Len(args)), OptC,
                             w.compiles)
    ELSE IF args[1] = OptM
    THEN IF Len(args) < 2 THEN Res("raised", "IndexError", argv_, <<>>)
         ELSE ExecuteModule(args[2], Tail(args))
    ELSE IF ~w.readable THEN Returned("Could not open", argv_)
    ELSE ExecuteContent(args[1], args, None, w.compiles)

\* PEX.execute_interpreter past sys.path.insert(0, ""): re-exec under options, run
\* what the arguments name, or the interactive loop
ExecuteInterpreter(argv_, w) ==
    IF Len(PythonOptions(Tail(argv_))) > 0
    THEN ExecuteWithOptions(PythonOptions(Tail(argv_)), RestArgs(Tail(argv_)), argv_, w)
    ELSE IF Len(RestArgs(Tail(argv_))) > 0
    THEN ExecuteInterpreterArgs(RestArgs(Tail(argv_)), argv_, w)
    ELSE Res("user_code", "interact", argv_, <<Ev("demote_bootstrap"), Ev("user_code")>>)

\* os.environ.setdefault for every entry of inject_env, a variable counting as set
\* only when its value is not empty
InjectEnvTruthy(env, inject_env) ==
    [k \in DOMAIN env |->
        IF k \in DOMAIN inject_env /\ ~Truthy(env[k]) THEN inject_env[k] ELSE env[k]]

\* for name, value in inject_env.items(): os.environ.setdefault(name, value)
InjectEnv(env, inject_env) ==
    [k \in DOMAIN env |->
        IF k \in DOMAIN inject_env /\ env[k] = None THEN inject_env[k] ELSE env[k]]

\* inject_args put behind the arguments of the command line
InjectArgsAppended(argv_, inject_args) == argv_ \o inject_args

\* sys.argv[1:1] = list(inject_args)
InjectArgs(argv_, inject_args) == <<Head(argv_)>> \o inject_args \o Tail(argv_)

\* a script and an entry point are both given
BothSpecified(e) == Truthy(e.script) /\ Truthy(e.entry_point)

\* not any((overrides.script, overrides.entry_point, info.script, info.entry_point))
NoEntrySpecified(p) ==
    /\ ~Truthy(p.overrides.script)
    /\ ~Truthy(p.overrides.entry_point)
    /\ ~Truthy(p.info.script)
    /\ ~Truthy(p.info.entry_point)

\* what _execute goes on with: the handler and its argument, os.environ and sys.argv
Handler(fn, arg, env, argv_, injected) ==
    [fn |-> fn, arg |-> arg, env |-> env, argv |-> argv_, injected |-> injected]

\* _execute with the entries of the overrides dispatched before the manifest is
\* tested for holding both a script and an entry point
DispatchOfOverridesFirst(p, force, env, argv_) ==
    IF force \/ NoEntrySpecified(p) THEN Handler("interpreter", None, env, argv_, FALSE)
    ELSE IF BothSpecified(p.overrides) THEN Handler("error", None, env, argv_, FALSE)
    ELSE IF Truthy(p.overrides.script)
    THEN Handler("script", p.overrides.script, env, argv_, FALSE)
    ELSE IF Truthy(p.overrides.entry_point)
    THEN Handler("entry", p.overrides.entry_point, env, argv_, FALSE)
    ELSE IF BothSpecified(p.info) THEN Handler("error", None, env, argv_, FALSE)
    ELSE IF Truthy(p.info.script)
    THEN Handler("script", p.info.script, InjectEnv(env, p.info.inject_env),
                 InjectArgs(argv_, p.info.inject_args), TRUE)
    ELSE Handler("entry", p.info.entry_point, InjectEnv(env, p.info.inject_env),
                 InjectArgs(argv_, p.info.inject_args), TRUE)

\* PEX._execute after _clean_environment: the interpreter when it is forced or no
\* entry is given, the error for a script and an entry point together, the entry of
\* the overrides, or inject_env, inject_args and the entry of the manifest
DispatchOf(p, force, env, argv_) ==
    IF force \/ NoEntrySpecified(p) THEN Handler("interpreter", None, env, argv_, FALSE)
    ELSE IF BothSpecified(p.overrides) THEN Handler("error", None, env, argv_, FALSE)
    ELSE IF BothSpecified(p.info) THEN Handler("error", None, env, argv_, FALSE)
    ELSE IF Truthy(p.overrides.script)
    THEN Handler("script", p.overrides.script, env, argv_, FALSE)
    ELSE IF Truthy(p.overrides.entry_point)
    THEN Handler("entry", p.overrides.entry_point, env, argv_, FALSE)
    ELSE IF Truthy(p.info.script)
    THEN Handler("script", p.info.script, InjectEnv(env, p.info.inject_env),
                 InjectArgs(argv_, p.info.inject_args), TRUE)
    ELSE Handler("entry", p.info.entry_point, InjectEnv(env, p.info.inject_env),
                 InjectArgs(argv_, p.info.inject_args), TRUE)

\* no call of activate()
Unactivated(p, s, env) == [pex |-> p, sys |-> s, env |-> env, ret |-> p.activated]

\* what activate() did, act being what it left: patch_sys, then the distributions of
\* each mount registered in turn, then the namespace packages declared over all of them
ActivationEvents(p, s, act) ==
    (IF act.sys.patches > s.patches THEN <<Ev("patch_sys")>> ELSE <<>>)
    \o (IF act.pex.next_id > p.next_id
        THEN [k \in 1..Len(p.mounts) |-> EvMount(k)] \o <<Ev("declare_namespace_packages")>>
        ELSE <<>>)

\* where execute() ends (die, the tools, or _execute) and what its activate() left
Executed(p, next, act) == [next |-> next, act |-> act]

\* PEX.execute with activate() called before PEX_TOOLS is looked at
PexExecuteActivatesFirst(p, s, env) ==
    IF EnvFlag(env, PEX_TOOLS)
    THEN Executed(p, IF ~p.info.includes_tools THEN "died" ELSE "tools", PexActivate(p, s, env))
    ELSE Executed(p, "_execute", PexActivate(p, s, env))

\* PEX.execute up to _execute: with PEX_TOOLS set the process ends, in die() unless the
\* PEX includes the tools; else the PEX is activated
PexExecute(p, s, env) ==
    IF EnvFlag(env, PEX_TOOLS)
    THEN Executed(p, IF ~p.info.includes_tools THEN "died" ELSE "tools", Unactivated(p, s, env))
    ELSE Executed(p, "_execute", PexActivate(p, s, env))

-----------------------------------------------------------------------------
(* SpecDispatch: PEX.execute of a PEX object, from its call to the end of user code *)

\* os.environ when execute() is called: PEX_TOOLS and PEX_INTERPRETER set or not, the
\* exec chain maybe_reexec_pex left, a variable of the application unset or set to ""
DispatchEnvs ==
    {[NoEnv EXCEPT ![PEX_TOOLS] = t, ![PEX_INTERPRETER] = i, ![EXEC_CHAIN] = Binary(1),
                   ![APP_VAR] = a] :
        t \in {None, One}, i \in {None, One}, a \in {None, EmptyStr}}

\* inject_env of PEX-INFO: nothing, the variable of the application, and with it a
\* variable whose name starts with PEX_
InjectEnvs ==
    {<<>>, (APP_VAR :> <<5, 5>>), (APP_VAR :> <<5, 5>>) @@ (PEX_PYTHON :> Binary(2))}

\* PEX-INFO as the dispatcher reads it
DispatchInfos ==
    [script : {None, <<7>>}, entry_point : {None, ModuleArg, <<8, 50, 9>>},
     inject_env : InjectEnvs, inject_args : {<<>>, <<One, <<5>>>>},
     strip_pex_env : BOOLEAN, includes_tools : BOOLEAN]

\* PexInfo.from_env: PEX_SCRIPT and PEX_MODULE
DispatchOverrides == [script : {None, <<7>>}, entry_point : {None, ModuleArg}]

\* sys.argv[1:]
DispatchArgs ==
    {<<>>, <<OptC>>, <<OptC, SourceArg>>, <<OptM>>, <<OptM, ModuleArg>>, <<StdinArg>>,
     <<FileArg>>, <<OptO>>, <<OptO, FileArg>>, <<OptO, OptE, FileArg, OptO>>}

\* what the handlers find outside the process: the script of that name, whether the
\* file can be read, the source compiled, the external script started, and whether
\* __main__ has a file; everything works, or one thing fails
Worlds ==
    {w \in [lookup : Lookups, readable : BOOLEAN, compiles : BOOLEAN, launches : BOOLEAN,
            main_file : BOOLEAN] :
        \/ w.readable /\ w.compiles /\ w.launches /\ w.main_file
        \/ /\ w.lookup = [console |-> "none", script |-> "external"]
           /\ Cardinality({f \in {"readable", "compiles", "launches", "main_file"} : ~w[f]}) = 1}

\* a PEX object with its PEX-INFO and the overrides of the environment
DispatchPex(info, overrides) ==
    [pex |-> PexFile, inherit_path |-> "false", mounts |-> << <<1>>, <<2>> >>,
     activated |-> NoList, next_id |-> 1, info |-> info, overrides |-> overrides]

NoResult == Res("none", "none", <<>>, <<>>)

DispatchInit ==
    /\ environ \in DispatchEnvs
    /\ pc = "pex.execute"
    /\ current = 1
    /\ \E args \in DispatchArgs : argv = <<PexFile>> \o args
    /\ \E info \in DispatchInfos, overrides \in DispatchOverrides :
           pexobj = DispatchPex(info, overrides)
    /\ sel = IdleSel
    /\ sys = StdSys
    /\ hist = [kind |-> "dispatch", env0 |-> environ, sys0 |-> sys, argv0 |-> argv,
               events |-> <<>>, force |-> FALSE, stripped |-> environ,
               handler |-> Handler("none", None, environ, argv, FALSE),
               lookup |-> NoLookup, result |-> NoResult]
    /\ pex_root = NoPexRoot
    /\ procs = NoProcs

\* execute() has ended in x
DispatchExecuted(x) ==
    /\ pexobj' = x.act.pex
    /\ sys' = x.act.sys
    /\ environ' = x.act.env
    /\ pc' = IF x.next = "_execute" THEN "pex._execute" ELSE "exited"
    /\ hist' = [hist EXCEPT
           !.events = @ \o ActivationEvents(pexobj, sys, x.act),
           !.result = IF x.next = "_execute" THEN @ ELSE Res(x.next, "SystemExit", argv, <<>>)]

\* PEX.execute up to the call of _execute
DispatchExecute ==
    /\ pc = "pex.execute"
    /\ DispatchExecuted(PexExecute(pexobj, sys, environ))
    /\ UNCHANGED <<current, argv, sel, venv_vars>>

\* _execute: PEX_INTERPRETER is read and the environment cleaned
DispatchClean ==
    /\ pc = "pex._execute"
    /\ environ' = CleanEnvironment(environ, pexobj.info.strip_pex_env)
    /\ hist' = [hist EXCEPT !.force = EnvFlag(environ, PEX_INTERPRETER),
                            !.stripped = CleanEnvironment(environ, pexobj.info.strip_pex_env),
                            !.events = Append(@, Ev("clean_environment"))]
    /\ pc' = "entry"
    /\ UNCHANGED <<current, argv, pexobj, sel, sys, venv_vars>>

\* _execute has chosen d
DispatchChosen(d) ==
    /\ environ' = d.env
    /\ argv' = d.argv
    /\ pc' = IF d.fn = "error" THEN "exited" ELSE "handler"
    /\ hist' = [hist EXCEPT
           !.handler = d,
           !.result = IF d.fn = "error"
                      THEN Returned("Cannot specify both script and entry_point for a PEX!",
                                    d.argv)
                      ELSE @]

\* _execute after the cleaning: the handler is chosen, or the error returned
DispatchEntry ==
    /\ pc = "entry"
    /\ DispatchChosen(DispatchOf(pexobj, hist.force, environ, argv))
    /\ UNCHANGED <<current, pexobj, sel, sys, venv_vars>>

\* the handler has ended in res, act being what the activate() of execute_script left
\* and found what its lookups gave
HandlerRan(res, act, cwd, found) ==
    /\ pexobj' = act.pex
    /\ environ' = act.env
    /\ sys' = IF cwd THEN [act.sys EXCEPT !.path = <<EmptyStr>> \o @] ELSE act.sys
    /\ argv' = IF res.kind = "execv" THEN argv ELSE res.argv
    /\ pc' = IF res.kind = "user_code" THEN "user_code" ELSE "exited"
    /\ hist' = [hist EXCEPT !.events = @ \o ActivationEvents(pexobj, sys, act) \o res.events,
                            !.lookup = found, !.result = res]

\* execute_interpreter, execute_script or execute_entry, up to the first user code or
\* to what the handler returns or raises without running any
RunHandler ==
    /\ pc = "handler"
    /\ \E w \in Worlds :
          IF hist.handler.fn = "interpreter"
          THEN HandlerRan(ExecuteInterpreter(argv, w), Unactivated(pexobj, sys, environ), TRUE,
                          NoLookup)
          ELSE IF hist.handler.fn = "script"
          THEN HandlerRan(ExecuteScript(hist.handler.arg, argv, w),
                          PexActivate(pexobj, sys, environ), FALSE, w.lookup)
          ELSE HandlerRan(ExecuteEntryOf(hist.handler.arg, argv),
                          Unactivated(pexobj, sys, environ), FALSE, NoLookup)
    /\ UNCHANGED <<current, sel, venv_vars>>

\* the user code runs to its end; it sets and unsets variables as it likes
UserCode ==
    /\ pc = "user_code"
    /\ \E v \in {None, Binary(1)} : environ' = EnvSet(environ, PEX_PYTHON, v)
    /\ pc' = "exited"
    /\ UNCHANGED <<current, argv, hist, pexobj, sel, sys, venv_vars>>

NextDispatch == DispatchExecute \/ DispatchClean \/ DispatchEntry \/ RunHandler \/ UserCode

SpecDispatch == DispatchInit /\ [][NextDispatch]_vars

-----------------------------------------------------------------------------
(* Properties of the dispatcher *)

\* the variables whose names start with PEX_, and the internal ones
PexPrefixed == {k \in EnvVars : StartsWith(k, PexPrefix)}
InternalVars == {STASHED_PYTHONPATH, BLESSED, EXEC_CHAIN}

\* strip_pex_env is set, _execute has cleaned the environment and no user code has
\* run yet
StrippedNotYetRun ==
    /\ hist.kind = "dispatch"
    /\ pexobj.info.strip_pex_env
    /\ pc \in {"entry", "handler", "user_code"}

\* C13 as stated: with the strip flag set, from the cleaning of _execute until user
\* code starts no variable whose name begins with PEX_ is in os.environ, and the
\* internal _PEX_ variables are as they were.
C13_Original ==
    StrippedNotYetRun =>
        /\ \A k \in PexPrefixed : environ[k] = None
        /\ \A k \in InternalVars : environ[k] = hist.env0[k]

\* C13: with the strip flag set, right after the cleaning of _execute no variable whose
\* name begins with PEX_ is in os.environ; from then until user code starts the only
\* such variables are those inject_env of the manifest names, with the injected value,
\* and only when the entry of the manifest is dispatched; the internal _PEX_
\* variables are as they were.
C13_StrippedButForInjectEnv ==
    StrippedNotYetRun =>
        /\ \A k \in PexPrefixed :
              \/ environ[k] = None
              \/ /\ pc # "entry"
                 /\ hist.handler.injected
                 /\ k \in DOMAIN pexobj.info.inject_env
                 /\ environ[k] = pexobj.info.inject_env[k]
        /\ \A k \in PexPrefixed : hist.stripped[k] = None
        /\ \A k \in InternalVars : environ[k] = hist.env0[k]

\* PEX_INTERPRETER was set and is stripped, the exec chain is still there, and the
\* interactive loop is about to start
C13_Witness ==
    /\ StrippedNotYetRun
    /\ pc = "user_code"
    /\ hist.env0[PEX_INTERPRETER] = One
    /\ environ[PEX_INTERPRETER] = None
    /\ environ[EXEC_CHAIN] = Binary(1)
    /\ hist.result.value = "interact"

\* C14: when _execute injects inject_env, every entry whose variable is set at that
\* time, to the empty string included, leaves the variable with the value it had.
C14_InjectEnvKeepsSetVariables ==
    (hist.kind = "dispatch" /\ hist.handler.injected) =>
        \A k \in DOMAIN pexobj.info.inject_env :
            hist.stripped[k] # None =>
                /\ hist.handler.env[k] = hist.stripped[k]
                /\ pc = "handler" => environ[k] = hist.stripped[k]

\* the variable of the application is set to "" and inject_env names it
C14_Witness ==
    /\ hist.kind = "dispatch"
    /\ hist.handler.injected
    /\ pc = "handler"
    /\ APP_VAR \in DOMAIN pexobj.info.inject_env
    /\ hist.stripped[APP_VAR] = EmptyStr
    /\ environ[APP_VAR] = EmptyStr

\* _execute has passed its choice of a handler
HandlerChosen == hist.kind = "dispatch" /\ hist.handler.fn # "none"

\* no handler has run user code or demoted the bootstrap
NoUserCode ==
    \A i \in 1..Len(hist.events) : hist.events[i].e \notin {"user_code", "demote_bootstrap", "external"}

\* C15: when the interpreter is not forced and a script and an entry point are both
\* given, both in the manifest or both in the overrides of the environment, _execute
\* returns the error string and runs neither.
C15_ScriptAndEntryPointIsAnError ==
    (/\ HandlerChosen
     /\ ~hist.force
     /\ BothSpecified(pexobj.info) \/ BothSpecified(pexobj.overrides)) =>
        /\ hist.handler.fn = "error"
        /\ pc = "exited"
        /\ hist.result = Returned("Cannot specify both script and entry_point for a PEX!", argv)
        /\ NoUserCode

\* the manifest holds both and the environment names a script alone
C15_Witness ==
    /\ HandlerChosen
    /\ ~hist.force
    /\ BothSpecified(pexobj.info)
    /\ Truthy(pexobj.overrides.script)
    /\ ~Truthy(pexobj.overrides.entry_point)
    /\ hist.handler.fn = "error"
    /\ pc = "exited"

\* the events of a launch that runs user code in this process
ExpectedEvents(p) ==
    <<Ev("patch_sys")>> \o [k \in 1..Len(p.mounts) |-> EvMount(k)]
    \o <<Ev("declare_namespace_packages"), Ev("clean_environment"), Ev("demote_bootstrap"),
         Ev("user_code")>>

\* C18: when user code starts in the process (a callable, a module, a script that is
\* source, -c, a file or stdin, the interactive loop) what has happened is, in this
\* order and once each: patch_sys, the registration of the distributions of each
\* mount, the declaration of the namespace packages, the cleaning of the
\* environment, demote_bootstrap, the user code.
C18_EventsInOrderOnceEach ==
    (hist.kind = "dispatch" /\ hist.result.kind = "user_code") =>
        hist.events = ExpectedEvents(pexobj)

\* a script that is Python source: execute_script has called activate() again
C18_Witness ==
    /\ hist.kind = "dispatch"
    /\ pc = "user_code"
    /\ hist.handler.fn = "script"
    /\ hist.result.value = "exec"
    /\ hist.events = ExpectedEvents(pexobj)

\* C19 as stated: whatever the arguments and the entries, a failure the dispatcher
\* detects, -c or -m as the last argument included, is a returned error string, never
\* a raised exception, and no user code has run.
C19_FailuresAreReturned ==
    hist.kind = "dispatch" =>
        /\ hist.result.kind # "raised"
        /\ (/\ hist.result.kind # "none"
            /\ hist.handler.fn = "interpreter"
            /\ Tail(hist.handler.argv) \in {<<OptC>>, <<OptM>>}) =>
               /\ hist.result.kind = "returned"
               /\ hist.result.value # "none"
               /\ NoUserCode

\* C20: execute() with PEX_TOOLS set on a PEX built without the tools ends in die()
\* with nothing patched and nothing activated: sys (path, importer cache, modules),
\* os.environ and sys.argv are as they were.
C20_ToolsMissingDiesBeforeActivation ==
    (/\ hist.kind = "dispatch"
     /\ EnvFlag(hist.env0, PEX_TOOLS)
     /\ ~pexobj.info.includes_tools
     /\ pc # "pex.execute") =>
        /\ pc = "exited"
        /\ hist.result.kind = "died"
        /\ hist.events = <<>>
        /\ pexobj.activated = NoList
        /\ sys = hist.sys0
        /\ environ = hist.env0
        /\ argv = hist.argv0

C20_Witness ==
    /\ hist.kind = "dispatch"
    /\ EnvFlag(hist.env0, PEX_TOOLS)
    /\ ~pexobj.info.includes_tools
    /\ pc = "exited"
    /\ hist.result.kind = "died"
    /\ sys.patches = 0

-----------------------------------------------------------------------------
(* Properties of the launch: PEX_PYTHON *)

\* the selection of the launch ran with PEX_PYTHON set and returned an interpreter
SelPexPython ==
    /\ sel.fn = "find"
    /\ Truthy(sel.env[PEX_PYTHON])
    /\ ~sel.found.error.raised

\* the interpreter PEX_PYTHON asks for: the one at the absolute path, or one whose
\* binary has that basename
RequiredByPexPython(i, pex_python) ==
    IF IsAbs(pex_python) THEN i = FromBinary(pex_python)
    ELSE i \in Interps /\ Basename(Binary(i)) = Basename(pex_python)

\* C16 as stated: whenever PEX_PYTHON is set and find_compatible_interpreter returns
\* an interpreter, it is the required one, the interpreter at the absolute path or one
\* with the basename, whether or not PEX_PYTHON_PATH is set too.
C16_PexPythonIsRequired ==
    SelPexPython => RequiredByPexPython(sel.found.target, sel.env[PEX_PYTHON])

-----------------------------------------------------------------------------
(* Properties of the scrubbing: PEX_INHERIT_PATH *)

\* patch_sys has run, and left what it leaves under the policy
PatchedUnder(policy) ==
    /\ hist.kind = "scrub"
    /\ pc = "scrubbed"
    /\ sys = PatchSysWith(hist.sys0, hist.env0, policy, ScrubIso).sys
    /\ environ = PatchSysWith(hist.sys0, hist.env0, policy, ScrubIso).env

\* PEX_INHERIT_PATH is set to false, prefer or fallback
InheritPathSet == hist.env0[PEX_INHERIT_PATH] \in {FalseStr, PreferStr, FallbackStr}

\* the policy PEX_INHERIT_PATH names
InheritPathNamed ==
    IF hist.env0[PEX_INHERIT_PATH] = PreferStr THEN "prefer"
    ELSE IF hist.env0[PEX_INHERIT_PATH] = FallbackStr THEN "fallback"
    ELSE "false"

\* C17 as stated: whenever PEX_INHERIT_PATH is set to false, prefer or fallback,
\* patch_sys uses that policy whatever the manifest says; PEX_INHERIT_PATH=false
\* gives the policy NONE under a manifest of prefer or fallback.
C17_Original ==
    (hist.kind = "scrub" /\ pc = "scrubbed" /\ InheritPathSet) =>
        PatchedUnder(InheritPathNamed)

\* C17: patch_sys uses the policy of PEX_INHERIT_PATH when that is prefer or fallback,
\* whatever the manifest says; with PEX_INHERIT_PATH unset or set to false it uses
\* the policy of the manifest.
C17_EnvPolicyUnlessFalse ==
    (hist.kind = "scrub" /\ pc = "scrubbed") =>
        PatchedUnder(IF hist.env0[PEX_INHERIT_PATH] \in {PreferStr, FallbackStr}
                     THEN InheritPathNamed ELSE pexobj.inherit_path)

\* PEX_INHERIT_PATH=false under a manifest of prefer: the path is inherited
C17_Witness ==
    /\ hist.kind = "scrub"
    /\ pc = "scrubbed"
    /\ hist.env0[PEX_INHERIT_PATH] = FalseStr
    /\ pexobj.inherit_path = "prefer"
    /\ PatchedUnder("prefer")
    /\ ~PatchedUnder("false")

-----------------------------------------------------------------------------
(* Properties of the dispatcher: inject_env and inject_args, PEX_SCRIPT *)

\* _execute has gone on to a script or an entry point
EntryDispatched == HandlerChosen /\ hist.handler.fn \in {"script", "entry"}

\* PEX_SCRIPT or PEX_MODULE names the entry
EntryOverridden == Truthy(pexobj.overrides.script) \/ Truthy(pexobj.overrides.entry_point)

\* sys.argv and os.environ as the handler gets them have inject_args right behind
\* argv[0], in order, and every inject_env variable that was unset set to its value,
\* the others as they were
InjectionApplied ==
    /\ hist.handler.argv = <<hist.argv0[1]>> \o pexobj.info.inject_args \o Tail(hist.argv0)
    /\ \A k \in EnvVars :
           hist.handler.env[k] =
               IF k \in DOMAIN pexobj.info.inject_env /\ hist.stripped[k] = None
               THEN pexobj.info.inject_env[k] ELSE hist.stripped[k]

\* C31 as stated: whenever _execute dispatches to a script or an entry point, named by
\* the manifest or by PEX_SCRIPT / PEX_MODULE, inject_args are in sys.argv right behind
\* argv[0] in their order and every unset inject_env variable is set to its value.
C31_Original == EntryDispatched => InjectionApplied

\* C31: inject_env and inject_args are applied when _execute dispatches the script or
\* entry point of the manifest; when PEX_SCRIPT or PEX_MODULE names the entry, the
\* handler is called with sys.argv and the cleaned os.environ untouched by either.
C31_InjectionOnlyForTheManifestEntry ==
    EntryDispatched =>
        IF EntryOverridden
        THEN /\ hist.handler.argv = hist.argv0
             /\ hist.handler.env = hist.stripped
        ELSE InjectionApplied

\* the entry point of the manifest, two injected arguments in front of the argument of
\* the command line, the variable of the application set from inject_env
C31_Witness ==
    /\ EntryDispatched
    /\ ~EntryOverridden
    /\ pc = "handler"
    /\ hist.argv0 = <<PexFile, FileArg>>
    /\ pexobj.info.inject_args = <<One, <<5>>>>
    /\ argv = <<PexFile, One, <<5>>, FileArg>>
    /\ hist.stripped[APP_VAR] = None
    /\ environ[APP_VAR] = <<5, 5>>

\* how many options other than -, -c and -m the arguments begin with
NumLeadingOptions(args) ==
    Cardinality({k \in 1..Len(args) : \A j \in 1..k : IsPythonOption(args[j])})

\* execute_interpreter has ended, called with arguments that begin with an option
InterpreterUnderOptions ==
    /\ hist.kind = "dispatch"
    /\ hist.handler.fn = "interpreter"
    /\ hist.result.kind # "none"
    /\ NumLeadingOptions(Tail(hist.handler.argv)) > 0

\* C32 as stated: when sys.argv[1:] begins with options other than -, -c and -m,
\* execute_interpreter re-executes sys.executable with the command line
\* [sys.executable] + the leading options + [the file of __main__] + the arguments
\* behind the leading options, each option once and in order, also when every
\* argument is an option (unless __main__ has no file, which is an error returned).
C32_OptionsPassedOnce ==
    InterpreterUnderOptions =>
        /\ hist.result.kind \in {"execv", "returned"}
        /\ hist.result.kind = "execv" =>
               hist.result.argv =
                   <<Binary(current)>>
                   \o SubSeq(Tail(hist.handler.argv), 1,
                             NumLeadingOptions(Tail(hist.handler.argv)))
                   \o <<PexFile>>
                   \o SubSeq(Tail(hist.handler.argv),
                             NumLeadingOptions(Tail(hist.handler.argv)) + 1,
                             Len(Tail(hist.handler.argv)))


\* PEX_SCRIPT is set and PEX_MODULE is not, the interpreter is not forced, the manifest
\* does not hold a script and an entry point together, and _execute has dispatched
ScriptOverridden ==
    /\ HandlerChosen
    /\ Truthy(pexobj.overrides.script)
    /\ ~Truthy(pexobj.overrides.entry_point)
    /\ ~hist.force
    /\ ~BothSpecified(pexobj.info)

\* what execute_script is to end with for what the distributions hold
ScriptOutcomeFits(found, res) ==
    IF found.console = "callable" THEN res.kind = "user_code" /\ res.value = "runner"
    ELSE IF found.console = "module" THEN res.kind = "user_code" /\ res.value = "run_module"
    ELSE IF found.script = "python_script" THEN res.kind = "user_code" /\ res.value = "exec"
    ELSE IF found.script = "external"
    THEN \/ res.kind = "external"
         \/ res.kind = "returned" /\ res.value = "Could not invoke script"
    ELSE res.kind = "returned" /\ res.value = "Could not find script"

\* C33: with PEX_SCRIPT set, no entry-point override, the interpreter not forced and
\* at most one of script and entry point in the manifest, _execute dispatches to that
\* script through execute_script whatever the manifest declares; execute_script runs
\* the console script of that name before a script file of that name, and returns an
\* error string when there is neither.
C33_ScriptOverrideDispatch ==
    ScriptOverridden =>
        /\ hist.handler.fn = "script"
        /\ hist.handler.arg = pexobj.overrides.script
        /\ ~hist.handler.injected
        /\ hist.result.kind # "none" => ScriptOutcomeFits(hist.lookup, hist.result)

\* PEX_SCRIPT won over an entry point of the manifest, and a console script over a
\* script file of the same name
C33_Witness ==
    /\ ScriptOverridden
    /\ Truthy(pexobj.info.entry_point)
    /\ hist.lookup.console = "module"
    /\ hist.lookup.script = "python_script"
    /\ hist.result.value = "run_module"

\* PEX_SCRIPT names a script no distribution holds: the error string is returned
C33_WitnessMissing ==
    /\ ScriptOverridden
    /\ hist.lookup = [console |-> "none", script |-> "none"]
    /\ hist.result.kind = "returned"


-----------------------------------------------------------------------------
(* Properties of ensure_venv: the short alias and the shebang of the launcher *)

\* the process has chosen its alias and populates, or has populated, the venv
Populating(p) == procs[p].pc = "populate" \/ procs[p].shebang # 0

\* the process has left atomic_directory(short_venv_dir) after populating
PastShortVenv(p) == procs[p].shebang # 0 /\ procs[p].pc \in {"venv_exit", "done", "killed"}
                    /\ procs[p].short_work = {}

\* the alias of k characters is finalized and its symlink leads to this venv
AliasOfThisVenv(k) ==
    /\ IsFinalized(pex_root.short[k])
    /\ pex_root.short[k].content = VenvSymlink(VenvDir)

\* C34: when ensure_venv populates a new venv, the alias it makes is named by the
\* shortest prefix of the digest, of 8 characters at least, whose directory is not
\* finalized when it is tried; the prefixes are tried in the order 8, 9, ..., 40, and
\* one population makes one alias: it picks one prefix and never a second, and no
\* step finalizes more than the alias picked.
C34_AliasIsShortestFreePrefix ==
    /\ [](\A p \in Procs :
            Populating(p) =>
                /\ procs[p].chars \in Prefixes
                /\ procs[p].collisions = [i \in 1..(procs[p].chars - FirstChars) |->
                                              FirstChars + i - 1]
                /\ \A j \in FirstChars..(procs[p].chars - 1) : IsFinalized(pex_root.short[j]))
    /\ [][\A p \in Procs :
            /\ (procs[p].pc = "short" /\ procs'[p].pc = "populate") =>
                   /\ ~IsFinalized(pex_root.short[procs[p].chars])
                   /\ procs'[p].chars = procs[p].chars
            /\ Populating(p) =>
                   /\ procs'[p].chars = procs[p].chars
                   /\ procs'[p].pc # "short"
                   /\ procs[p].shebang # 0 => procs'[p].pc # "populate"]_vars
    /\ [][\A k \in Prefixes :
            pex_root'.short[k] # pex_root.short[k] =>
                /\ AliasOfThisVenv(k)'
                /\ \A j \in Prefixes \ {k} : pex_root'.short[j] = pex_root.short[j]
                /\ \E p \in Procs : /\ procs[p].pc = "short_exit"
                                    /\ procs[p].chars = k
                                    /\ procs'[p].aliased]_vars
    /\ [](\A p \in Procs :
            (PastShortVenv(p) /\ procs[p].pc # "killed") => AliasOfThisVenv(procs[p].chars))

\* the first prefix was taken by another venv: a process found the first prefix taken,
\* made the alias of the second and finalized the venv
C34_Witness ==
    \E p \in Procs :
        /\ procs[p].pc = "done"
        /\ procs[p].won
        /\ procs[p].aliased
        /\ procs[p].chars = FirstChars + 1
        /\ procs[p].collisions = <<FirstChars>>
        /\ pex_root.short[FirstChars].content = VenvSymlink(OtherVenvDir)
        /\ AliasOfThisVenv(FirstChars + 1)


\* C35 as stated: ensure_venv emits the warning about the shebang whenever the
\* shebang of the populated launcher is 128 characters or longer, exactly 128
\* included, and the warning never stops the venv from being made: the process goes
\* on to finalize the alias and the venv.
C35_WarnsFrom128 ==
    \A p \in Procs :
        procs[p].shebang # 0 =>
            /\ procs[p].warned <=> ShebangLen(pex_root, procs[p].shebang) >= ShebangLimit
            /\ procs[p].pc \in {"short_exit", "venv_exit", "done", "killed"}
            /\ procs[p].error = "none"

\* what ensure_venv does: the warning for a shebang longer than 128 characters, and
\* the process goes on
WarnsAbove128 ==
    \A p \in Procs :
        procs[p].shebang # 0 =>
            /\ procs[p].warned <=> ShebangLen(pex_root, procs[p].shebang) > ShebangLimit
            /\ procs[p].pc \in {"short_exit", "venv_exit", "done", "killed"}
            /\ procs[p].error = "none"

\* a process warned about its shebang and went on to finalize the venv
WarnedAndDone ==
    \E p \in Procs : procs[p].warned /\ procs[p].pc = "done" /\ procs[p].won


\* C36 as stated: in every reachable state, also between the steps of concurrent or
\* interrupted runs of ensure_venv, the venv symlink of a finalized alias leads to a
\* finalized venv directory.
C36_Original ==
    \A k \in Prefixes : AliasOfThisVenv(k) => IsFinalized(pex_root.venv)

\* C36: a finalized alias always holds its venv symlink. The alias is finalized
\* before the venv directory it leads to: while that venv directory is not finalized,
\* a run that has populated it through this alias has left
\* atomic_directory(short_venv_dir) and is about to leave atomic_directory(venv_dir),
\* or was interrupted.
C36_AliasFinalizedBeforeItsVenv ==
    \A k \in Prefixes :
        /\ IsFinalized(pex_root.short[k]) =>
               pex_root.short[k].content \in {VenvSymlink(VenvDir), VenvSymlink(OtherVenvDir)}
        /\ (AliasOfThisVenv(k) /\ ~IsFinalized(pex_root.venv)) =>
               \E p \in Procs : /\ procs[p].shebang = k
                                /\ procs[p].aliased
                                /\ procs[p].pc \in {"venv_exit", "killed"}

\* an alias of this venv is finalized, the run that made it was interrupted before it
\* finalized the venv, and the other process has not begun: the alias dangles
C36_Witness ==
    /\ AliasOfThisVenv(FirstChars)
    /\ ~IsFinalized(pex_root.venv)
    /\ \E p \in Procs, q \in Procs :
          /\ procs[p].pc = "killed" /\ procs[p].aliased
          /\ procs[q].pc = "start"


\* C37: however the writers of one venv directory interleave, once the venv directory
\* is finalized the alias that the shebang of its launcher goes through is finalized
\* and its venv symlink leads to that venv directory.
C37_LauncherAliasIsInPlace ==
    IsFinalized(pex_root.venv) =>
        /\ pex_root.launcher \in Prefixes
        /\ AliasOfThisVenv(pex_root.launcher)

\* two writers picked the same prefix: one renamed its alias into place, the other,
\* whose alias was discarded, renamed its venv into place
C37_Witness ==
    /\ IsFinalized(pex_root.venv)
    /\ \E p \in Procs, q \in Procs :
          /\ p # q
          /\ procs[p].won /\ ~procs[p].aliased
          /\ procs[q].aliased /\ ~procs[q].won
          /\ procs[p].shebang = procs[q].shebang
          /\ pex_root.launcher = procs[p].shebang
          /\ pex_root.venv = Dir(CompleteVenv(p))


-----------------------------------------------------------------------------
(* Properties of the scrub: the importer cache as a whole *)

\* the entries of the old importer cache whose key starts with no scrubbed path
UnscrubbedCache ==
    SelectSeq(hist.sys0.path_importer_cache,
              LAMBDA key : ~StartsWithAny(key, ScrubbedLocations))

\* C38 as stated: under the inherit-path policy FALSE the importer cache that
\* minimum_sys_path returns holds exactly the entries of the old cache whose key does
\* not start with any scrubbed path, whatever the order of the keys; under PREFER and
\* FALLBACK, where nothing is scrubbed, it is the old cache.
C38_ExactlyTheUnscrubbedEntries ==
    pc = "scrubbed" => sys.path_importer_cache = UnscrubbedCache

\* the same where filter() returns a list
UnscrubbedWhereFilterIsAList ==
    (pc = "scrubbed" /\ ~hist.sys0.py3) => sys.path_importer_cache = UnscrubbedCache

\* where filter() returns an iterator, a key to be scrubbed that comes after a key to
\* be kept is still in the cache
ScrubbedKeyKept ==
    /\ pc = "scrubbed"
    /\ hist.sys0.py3
    /\ \E key \in SeqToSet(sys.path_importer_cache) : StartsWithAny(key, ScrubbedLocations)


-----------------------------------------------------------------------------
(* Properties of activate() when the activation raises *)

\* C39: activate() records the list of activated distributions only after patch_sys
\* and the activation have both completed. When the activation raises after patch_sys
\* has changed the runtime the cache stays unset, and the next call of activate() on
\* the object applies patch_sys and the activation again, to the runtime already
\* scrubbed: patch_sys has run once for every call that raised and once for the call
\* that completed.
C39_CacheSetOnlyAfterActivation ==
    hist.kind = "pex" =>
        /\ pexobj.activated = NoList <=> Len(hist.returns) = 0
        /\ sys.patches = hist.raised + (IF Len(hist.returns) > 0 THEN 1 ELSE 0)
        /\ Len(hist.returns) > 0 =>
               \A d \in SeqToSet(Flatten(pexobj.mounts)) : DistLocation(d) \in SeqToSet(sys.path)

\* the activation raised after registering a distribution, and the next call patched
\* the runtime a second time and returned the list
C39_Witness ==
    /\ hist.kind = "pex"
    /\ hist.raised = 1
    /\ Len(hist.returns) = 1
    /\ sys.patches = 2
    /\ Len(hist.returns[1].dists) = 2

=============================================================================
